---------------------------- MODULE Spec2Model ----------------------------
(***************************************************************************)
(* A model of EarVan's AudioEngine (services/audioEngine.ts): the engine   *)
(* object's fields, the Web Audio context it drives, the microphone        *)
(* streams the platform hands out, and every asynchronous method cut at    *)
(* its await points.                                                       *)
(*                                                                         *)
(* Units.  Gains in dB and frequencies in Hz are integers as in the        *)
(* source.  The master gain (a linear factor: 1.0, 1.15, 1.25, clamp to    *)
(* [0,4]) is kept in hundredths, so 1.15 is 115 and 4 is 400.              *)
(***************************************************************************)
EXTENDS Integers, Sequences, FiniteSets, TLC

\* ------------------------------------------------------------------ bounds
\* How many asynchronous calls may be in flight at once.
MaxTasks == 2
\* The same, in the runs that make one asynchronous call at a time.
SeqTasks == 1
\* How many AudioContext objects the engine may create in one run.
MaxCtx == 2
\* How many calls set ramp targets in a run that follows the ramps.
MaxChanges == 3

\* How many blocks of 25 ms are rendered after a call in such a run.
MaxSmooth == 10

\* How many ids generateId() hands out in a run of the user store.
MaxUsers == 3

\* How many MediaStreams the platform may hand out in one run.
MaxStreams == 2

\* --------------------------------------------------------------- constants
EQ_FREQUENCIES == <<500, 1000, 2000, 4000, 8000>>

EnvironmentMode == {"QUIET", "CONVERSATION", "NOISY"}

\* gainOffset is in hundredths (0.15 -> 15); the other fields are as written.
ENV_PRESETS ==
  [ QUIET |->
      [ gainOffset |-> 0,
        eqOffsets |-> << >>,
        highpassFreq |-> 1,
        compressorThreshold |-> -24,
        compressorRatio |-> 4 ],
    CONVERSATION |->
      [ gainOffset |-> 15,
        eqOffsets |-> (500 :> -5) @@ (1000 :> 6) @@ (2000 :> 8) @@ (4000 :> 4) @@ (8000 :> -2),
        highpassFreq |-> 150,
        compressorThreshold |-> -30,
        compressorRatio |-> 6 ],
    NOISY |->
      [ gainOffset |-> 25,
        eqOffsets |-> (500 :> -10) @@ (1000 :> 2) @@ (2000 :> 6) @@ (4000 :> 4) @@ (8000 :> -6),
        highpassFreq |-> 400,
        compressorThreshold |-> -20,
        compressorRatio |-> 10 ] ]

MILD_LOSS_BOOSTS == (2000 :> 3) @@ (4000 :> 5) @@ (8000 :> 6)

SPEECH_FOCUS_BOOSTS == (500 :> -3) @@ (1000 :> 6) @@ (2000 :> 8) @@ (4000 :> 4)

BALANCED_BOOSTS == (500 :> 1) @@ (1000 :> 2) @@ (2000 :> 2) @@ (4000 :> 1)

\* ------------------------------------------------------------------ strings
\* Line 371, mutated: the name is matched as it is written.
toLowerCaseNot(s) == s

\* A profile name is a sequence of one-character strings, so that
\* toLowerCase() and includes() are computed and not assumed.
UpperCase == <<"A","B","C","D","E","F","G","H","I","J","K","L","M",
               "N","O","P","Q","R","S","T","U","V","W","X","Y","Z">>

LowerCase == <<"a","b","c","d","e","f","g","h","i","j","k","l","m",
               "n","o","p","q","r","s","t","u","v","w","x","y","z">>

\* String.prototype.toLowerCase, one character
LowerChar(c) ==
  IF \E i \in 1..Len(UpperCase) : UpperCase[i] = c
  THEN LowerCase[CHOOSE i \in 1..Len(UpperCase) : UpperCase[i] = c]
  ELSE c

toLowerCase(s) == [i \in 1..Len(s) |-> LowerChar(s[i])]

\* String.prototype.includes
includes(s, kw) ==
  \E i \in 1..(Len(s) - Len(kw) + 1) : SubSeq(s, i, i + Len(kw) - 1) = kw

KwMild == <<"m","i","l","d">>

KwSpeech == <<"s","p","e","e","c","h">>

KwBalanced == <<"b","a","l","a","n","c","e","d">>

\* `map[freq] ?? 0` on a Partial<Record<EQFrequency, number>>
Lookup(map, freq) == IF freq \in DOMAIN map THEN map[freq] ELSE 0

\* Lines 336 and 382, mutated: the value is passed on as it is.
ClampNone(v, lo, hi) == v

\* Math.max(lo, Math.min(hi, v))
Clamp(v, lo, hi) ==
  LET m == IF v < hi THEN v ELSE hi IN IF m > lo THEN m ELSE lo

\* ----------------------------------------------------------------- profiles
\* HearingProfile.name values: the three presets and the custom name of the
\* setup page, one name that matches the three keywords in mixed case and
\* one that matches 'balanced' before 'speech'.
NameMildLoss == <<"M","i","l","d"," ","L","o","s","s"," ","P","r","o","f","i","l","e">>

NameSpeechFocus == <<"S","p","e","e","c","h"," ","F","o","c","u","s"," ","P","r","o","f","i","l","e">>

NameBalanced == <<"B","a","l","a","n","c","e","d"," ","P","r","o","f","i","l","e">>

NameCustom == <<"C","u","s","t","o","m"," ","P","r","o","f","i","l","e">>

NameMixed == <<"B","A","L","A","N","C","E","D"," ","S","p","e","e","c","h"," ","m","i","l","d">>

NameSpeechBalanced == <<"b","a","l","a","n","c","e","d"," ","S","P","E","E","C","H">>

ProfileNames ==
  {NameMildLoss, NameSpeechFocus, NameBalanced, NameCustom, NameMixed, NameSpeechBalanced}

\* The slider range of a band (min, max, step 1).
MinBand == -12

MaxBand == 12

\* `_currentProfile = null`, and a node field that is still null
Null == [null |-> TRUE]

HearingProfile(name, b500, b1000, b2000, b4000, b8000) ==
  [ name |-> name,
    eqBands |-> (500 :> b500) @@ (1000 :> b1000) @@ (2000 :> b2000)
                @@ (4000 :> b4000) @@ (8000 :> b8000) ]

\* The example profile of the setup page's "Speech Focus" preset.
SpeechFocusProfile == HearingProfile(NameSpeechFocus, -2, 4, 6, 4, 0)

\* A custom profile at the ends of the slider range.
CustomProfile == HearingProfile(NameCustom, MinBand, 0, MaxBand, MaxBand, MinBand)

\* What the callers do in a run with overlapping asynchronous calls: few
\* values, so that every interleaving of the calls is covered.  `noises`
\* are the sample sequences Math.random() may give a test buffer.
Overlapping ==
  [ tasks |-> MaxTasks,
    profiles |-> {SpeechFocusProfile},
    modes |-> {"NOISY"},
    volumes |-> {250},
    noises |-> {1},
    pairs |-> FALSE ]

\* What the callers do in a run that awaits each asynchronous call before
\* the next (synchronous calls still fall between its awaits): every mode,
\* two profiles, and volumes (in hundredths) below, inside and above [0, 4].
OneAtATime ==
  [ tasks |-> SeqTasks,
    profiles |-> {SpeechFocusProfile, CustomProfile},
    modes |-> EnvironmentMode,
    volumes |-> {-50, 250, 900},
    noises |-> {1},
    pairs |-> FALSE ]

\* The same with one profile, one volume and the two modes that are not
\* the initial one, and with the history of each pair of setProfile() and
\* setEnvironment() calls kept (see MonSetter).
SetterPairs ==
  [ tasks |-> SeqTasks,
    profiles |-> {CustomProfile},
    modes |-> {"CONVERSATION", "NOISY"},
    volumes |-> {250},
    noises |-> {1},
    pairs |-> TRUE ]

\* One asynchronous call at a time with one profile, mode and volume, and
\* two sample sequences that Math.random() may give a test buffer.
TestAudio ==
  [ tasks |-> SeqTasks,
    profiles |-> {SpeechFocusProfile},
    modes |-> {"NOISY"},
    volumes |-> {250},
    noises |-> {1, 2},
    pairs |-> FALSE ]

\* What the dashboard does: overlapping calls, the user's profile and two
\* modes to pick from.
Dashboard ==
  [ tasks |-> MaxTasks,
    profiles |-> {SpeechFocusProfile},
    modes |-> {"QUIET", "NOISY"},
    volumes |-> {250},
    noises |-> {1},
    pairs |-> FALSE ]

\* The same with one profile, two modes and one volume, for a run that
\* follows the ramps of the parameters.
Ramping ==
  [ tasks |-> SeqTasks,
    profiles |-> {SpeechFocusProfile},
    modes |-> {"QUIET", "NOISY"},
    volumes |-> {250},
    noises |-> {1},
    pairs |-> FALSE ]

\* -------------------------------------------------------- _applySettings
\* The stage values right after initialize() has built the graph.
InitialTargets ==
  [ highpass |-> 1,
    eq |-> <<0, 0, 0, 0, 0>>,
    threshold |-> -24,
    ratio |-> 4,
    gain |-> 100 ]

\* Lines 369-379: the boost table is picked by the first keyword the
\* lower-cased name includes; no keyword, no boost.  Tabulated over the
\* names in scope.
BoostsByName ==
  [ name \in ProfileNames |->
      LET profileName == toLowerCase(name) IN
        IF includes(profileName, KwMild) THEN MILD_LOSS_BOOSTS
        ELSE IF includes(profileName, KwSpeech) THEN SPEECH_FOCUS_BOOSTS
        ELSE IF includes(profileName, KwBalanced) THEN BALANCED_BOOSTS
        ELSE << >> ]

\* specificBoost for one filter: `TABLE[freq] ?? 0`, or 0 without a table
SpecificBoost(profile, freq) == Lookup(BoostsByName[profile.name], freq)

\* Line 382, mutated: the sum is clamped to the slider range instead.
EqTotalSliderClamp(profileGain, specificBoost, envOffset) ==
  Clamp(profileGain + specificBoost + envOffset, MinBand, MaxBand)

\* Line 382, mutated: the sum is not clamped.
EqTotalUnclamped(profileGain, specificBoost, envOffset) ==
  profileGain + specificBoost + envOffset

\* Line 382: Math.max(-18, Math.min(18, profileGain + specificBoost + envOffset))
EqTotal(profileGain, specificBoost, envOffset) ==
  Clamp(profileGain + specificBoost + envOffset, -18, 18)

\* Lines 362-365, mutated: the EQ filters do not look at the bypass flag.
EqGainNoBypass(profile, mode, bypass, i) ==
  LET freq == EQ_FREQUENCIES[i] IN
    EqTotal(Lookup(profile.eqBands, freq),
            SpecificBoost(profile, freq),
            Lookup(ENV_PRESETS[mode].eqOffsets, freq))

\* Lines 360-385: the gain target of the i-th EQ filter.
EqGain(profile, mode, bypass, i) ==
  LET freq == EQ_FREQUENCIES[i] IN
    IF bypass THEN 0
    ELSE EqTotal(Lookup(profile.eqBands, freq),
                 SpecificBoost(profile, freq),
                 Lookup(ENV_PRESETS[mode].eqOffsets, freq))

\* Lines 351-405, mutated: the bypass flag is ignored by the high-pass,
\* compressor and gain stages.
StageTargetsNoBypass(profile, mode, bypass) ==
  LET preset == ENV_PRESETS[mode] IN
    [ highpass |-> preset.highpassFreq,
      eq |-> [i \in 1..Len(EQ_FREQUENCIES) |-> EqGain(profile, mode, bypass, i)],
      threshold |-> preset.compressorThreshold,
      ratio |-> preset.compressorRatio,
      gain |-> 100 + preset.gainOffset ]

\* Lines 399-405, mutated: the gain stage forgets the mode's gain offset.
StageTargetsUnitGain(profile, mode, bypass) ==
  LET preset == ENV_PRESETS[mode] IN
    [ highpass |-> IF bypass THEN 1 ELSE preset.highpassFreq,
      eq |-> [i \in 1..Len(EQ_FREQUENCIES) |-> EqGain(profile, mode, bypass, i)],
      threshold |-> IF bypass THEN -60 ELSE preset.compressorThreshold,
      ratio |-> IF bypass THEN 1 ELSE preset.compressorRatio,
      gain |-> IF bypass THEN 0 ELSE 100 ]

\* Lines 349-405: the targets one apply writes.
StageTargets(profile, mode, bypass) ==
  LET preset == ENV_PRESETS[mode] IN
    [ highpass |-> IF bypass THEN 1 ELSE preset.highpassFreq,
      eq |-> [i \in 1..Len(EQ_FREQUENCIES) |-> EqGain(profile, mode, bypass, i)],
      threshold |-> IF bypass THEN -60 ELSE preset.compressorThreshold,
      ratio |-> IF bypass THEN 1 ELSE preset.compressorRatio,
      gain |-> IF bypass THEN 0 ELSE 100 + preset.gainOffset ]

\* Lines 399-405, mutated: an apply leaves the master gain as it finds it.
ApplySettingsKeepsGain(ctx, profile, mode, bypass, old) ==
  IF ctx = 0 \/ profile = Null THEN old
  ELSE [StageTargets(profile, mode, bypass) EXCEPT !.gain = old.gain]

\* Line 344, mutated: an apply goes ahead without a profile, every lookup
\* on the missing profile falling back to 0 (`?? 0`) and its name to ''.
ApplySettingsNoProfileGuard(ctx, profile, mode, bypass, old) ==
  IF ctx = 0 THEN old
  ELSE StageTargets(IF profile = Null THEN HearingProfile(NameCustom, 0, 0, 0, 0, 0)
                                      ELSE profile,
                    mode, bypass)

\* Line 344, mutated: an apply goes ahead without a context.
ApplySettingsNoContextGuard(ctx, profile, mode, bypass, old) ==
  IF profile = Null THEN old ELSE StageTargets(profile, mode, bypass)

\* _applySettings(): a no-op without a context or a profile (line 344).
ApplySettings(ctx, profile, mode, bypass, old) ==
  IF ctx = 0 \/ profile = Null THEN old ELSE StageTargets(profile, mode, bypass)

\* ---------------------------------------------------------- the node graph
\* A node of the graph: the field that holds it, and its place in eqFilters.
Node(field, i) == [field |-> field, i |-> i]

\* Lines 131-160: the nodes initialize() creates, with the parameters it
\* sets once and nothing ramps.  Q in tenths, times in milliseconds, the
\* analyser's smoothing in hundredths.
BuildNodes ==
  [ highpassFilter |-> [type |-> "highpass", Q |-> 7],
    eqFilters |-> [i \in 1..Len(EQ_FREQUENCIES) |->
                     [type |-> "peaking", frequency |-> EQ_FREQUENCIES[i], Q |-> 14]],
    compressor |-> [knee |-> 30, attack |-> 3, release |-> 150],
    analyser |-> [fftSize |-> 1024, smoothingTimeConstant |-> 80,
                  minDecibels |-> -90, maxDecibels |-> -10] ]

\* The connections made from `node` on through eqFilters[i..], then to the
\* compressor (the forEach of lines 179-182 and line 184).
RECURSIVE ConnectFilters(_, _)
ConnectFilters(node, i) ==
  IF i > Len(EQ_FREQUENCIES)
  THEN { <<node, Node("compressor", 0)>> }
  ELSE { <<node, Node("eqFilters", i)>> } \cup ConnectFilters(Node("eqFilters", i), i + 1)

\* Lines 172-187, mutated: the analyser taps the chain before the compressor.
ConnectStaticChainTapFirst ==
  { <<Node("gainNode", 0), Node("highpassFilter", 0)>> }
    \cup (ConnectFilters(Node("highpassFilter", 0), 1)
            \ { <<Node("eqFilters", Len(EQ_FREQUENCIES)), Node("compressor", 0)>> })
    \cup { <<Node("eqFilters", Len(EQ_FREQUENCIES)), Node("analyser", 0)>>,
           <<Node("analyser", 0), Node("compressor", 0)>>,
           <<Node("compressor", 0), Node("destination", 0)>> }

\* _connectStaticChain(), lines 172-187: every connect() it makes.
ConnectStaticChain ==
  { <<Node("gainNode", 0), Node("highpassFilter", 0)>> }
    \cup ConnectFilters(Node("highpassFilter", 0), 1)
    \cup { <<Node("compressor", 0), Node("analyser", 0)>>,
           <<Node("analyser", 0), Node("destination", 0)>> }

\* ------------------------------------------------------------ the ramps
\* A parameter value in the unit of `live`.
Thousandths(v) == v * 1000

\* The values `.value = ...` gives the ramped parameters (lines 132-154).
Written(tg) ==
  [ highpass |-> Thousandths(tg.highpass),
    eq |-> [i \in 1..Len(EQ_FREQUENCIES) |-> Thousandths(tg.eq[i])],
    threshold |-> Thousandths(tg.threshold),
    ratio |-> Thousandths(tg.ratio),
    gain |-> Thousandths(tg.gain) ]

\* Lines 337 and 348-404, mutated: the parameter is assigned (`.value = v`).
SetValueDirectly(value, target) == Thousandths(target)

\* param.setTargetAtTime(target, now, ramp): the value the parameter has
\* right after the call is the value it had.
SetTargetAtTime(value, target) == value

\* The live values after an apply that has set the targets `tg`.
Ramped(lv, tg) ==
  [ highpass |-> SetTargetAtTime(lv.highpass, tg.highpass),
    eq |-> [i \in 1..Len(EQ_FREQUENCIES) |-> SetTargetAtTime(lv.eq[i], tg.eq[i])],
    threshold |-> SetTargetAtTime(lv.threshold, tg.threshold),
    ratio |-> SetTargetAtTime(lv.ratio, tg.ratio),
    gain |-> SetTargetAtTime(lv.gain, tg.gain) ]

\* _applySettings() on the live values: nothing without a context or a
\* profile (line 344), else a ramp for every parameter.
ApplyLive(ctx, profile, lv, tg) ==
  IF ctx = 0 \/ profile = Null THEN lv ELSE Ramped(lv, tg)

\* Lines 337 and 347, mutated: twice the time constant, in milliseconds.
rampSlow == 2 * 50

\* `const ramp = 0.05` (line 347) and the 0.05 of line 337, in milliseconds
ramp == 50

\* e^(-25/timeConstant) in thousandths, rounded up: what is left of the
\* distance to the target after 25 ms of a setTargetAtTime ramp.
Decay(timeConstant) ==
  CASE timeConstant = 50 -> 607
    [] timeConstant = 100 -> 779

\* The value of a parameter 25 ms on: target + (value - target) * e^(-25/tc),
\* the remaining distance rounded away from the target.
Approach(value, target, timeConstant) ==
  LET goal == Thousandths(target)
      d == IF value >= goal THEN value - goal ELSE goal - value
      left == (d * Decay(timeConstant) + 999) \div 1000
  IN  IF value >= goal THEN goal + left ELSE goal - left

\* The live values 25 ms on.
Smoothed(lv, tg) ==
  [ highpass |-> Approach(lv.highpass, tg.highpass, ramp),
    eq |-> [i \in 1..Len(EQ_FREQUENCIES) |-> Approach(lv.eq[i], tg.eq[i], ramp)],
    threshold |-> Approach(lv.threshold, tg.threshold, ramp),
    ratio |-> Approach(lv.ratio, tg.ratio, ramp),
    gain |-> Approach(lv.gain, tg.gain, ramp) ]

\* ------------------------------------------------------------------- state
VARIABLES
  context,          \* this.context: 0 is null, else the id of the AudioContext
  ctxState,         \* AudioContext.state of every context id ("unborn": not created)
  ctxQ,             \* the suspend/resume/close requests the platform has not answered, oldest first
  stream,           \* this.stream: 0 is null, else the id of the MediaStream
  streams,          \* every stream id: "unborn", "live" (active), "stopped" (by the engine) or "ended"
  graph,            \* gainNode .. analyser: 0 is null, else the context that made them
  targets,          \* the stage values / ramp targets of those nodes (Null without nodes)
  micSource,        \* this.micSource: "null", "connected" (to gainNode) or "disconnected"
  testSource,       \* this.testSource: "null" or "playing" (connected to gainNode)
  _isRunning,
  _currentMode,
  _currentProfile,
  _isBypassed,
  _isTesting,
  tasks,            \* the asynchronous calls in flight, each at its await
  scope,            \* the bounds of the run: calls in flight, and the values callers pass
  spectrum,         \* what the analyser node last computed: "zero" (silence) or "data"
  chain,            \* the nodes with the parameters nothing ramps, and their connections (Null without nodes)
  live,             \* the value each ramped parameter has now, in thousandths of its unit (Null without nodes)
  noise,            \* the samples the last test buffer was filled with (0: none yet)
  users,            \* the user store: localStorage['earvan_users'], by id
  dash,             \* the DashboardPage that is mounted (Null: none)
  app,              \* the App component around the pages, with the setup page (Null: none)
  mon               \* history: the call sequence under way, with the state it refers to

engine == <<context, ctxState, ctxQ, stream, streams, graph, targets, micSource,
            testSource, _isRunning, _currentMode, _currentProfile, _isBypassed,
            _isTesting>>

vars == <<context, ctxState, ctxQ, stream, streams, graph, targets, micSource,
          testSource, _isRunning, _currentMode, _currentProfile, _isBypassed,
          _isTesting, tasks, scope, spectrum, chain, live, noise, users, dash, app, mon>>

Tasks == 1..MaxTasks

\* A call in flight: the method, the await it is at, the context it is
\* waiting on, and whether the continuation that runs next was queued by a
\* promise the platform has just settled.
Idle == [op |-> "none", pc |-> "idle", ctx |-> 0, chained |-> FALSE]

AllIdle == \A t \in Tasks : tasks[t].pc = "idle"

\* A continuation is queued as a microtask: an `await` on an async method
\* of the engine that has returned (lines 166, 234).  The platform settles
\* no promise before the microtask queue is empty.
Microtask == \E t \in Tasks : tasks[t].pc \in {"attach_ret", "init_ret"}

\* The microtask was queued while the platform settled a promise: it runs
\* before any caller can make another call.
Chained == \E t \in Tasks : tasks[t].chained

\* The engine's fields, as one value.
View ==
  [ context |-> context, ctxState |-> ctxState, stream |-> stream,
    streams |-> streams, graph |-> graph, targets |-> targets,
    micSource |-> micSource, testSource |-> testSource,
    _isRunning |-> _isRunning, _currentMode |-> _currentMode,
    _currentProfile |-> _currentProfile, _isBypassed |-> _isBypassed,
    _isTesting |-> _isTesting ]

\* isRunning(), line 416
isRunning == _isRunning /\ context # 0 /\ ctxState[context] = "running"

\* The sources connected to the head of the graph (the gain node).
HeadSources ==
  (IF micSource = "connected" THEN {"mic"} ELSE {})
    \cup (IF testSource = "playing" THEN {"test"} ELSE {})

\* Lines 277-279, mutated: the source is left connected.
DisconnectedNot(node) == node

\* `if (this.micSource) this.micSource.disconnect()` (lines 224-226, 277-279)
Disconnected(node) == IF node = "null" THEN "null" ELSE "disconnected"

\* Line 118, mutated: initialize() never takes the early return.
HasContextNever == FALSE

\* `if (this.context)`, line 118
HasContext == context # 0

\* `!this.stream || !this.stream.active`, line 202
NeedsDevice == stream = 0 \/ streams[stream] # "live"

MonOff == [k |-> "off", snap |-> Null]

InitEngine ==
  /\ context = 0
  /\ ctxState = [c \in 1..MaxCtx |-> "unborn"]
  /\ ctxQ = << >>
  /\ stream = 0
  /\ streams = [s \in 1..MaxStreams |-> "unborn"]
  /\ graph = 0
  /\ targets = Null
  /\ micSource = "null"
  /\ testSource = "null"
  /\ _isRunning = FALSE
  /\ _currentMode = "QUIET"
  /\ _currentProfile = Null
  /\ _isBypassed = FALSE
  /\ _isTesting = FALSE
  /\ tasks = [t \in Tasks |-> Idle]
  /\ spectrum = "zero"
  /\ chain = Null
  /\ live = Null
  /\ noise = 0
  /\ mon = MonOff

\* No page is mounted, and nobody has signed up.
NoPages == users = << >> /\ dash = Null /\ app = Null

Init == InitEngine /\ NoPages /\ scope = Overlapping

InitSeq == InitEngine /\ NoPages /\ scope = OneAtATime

InitPairs == InitEngine /\ NoPages /\ scope = SetterPairs

InitNoise == InitEngine /\ NoPages /\ scope = TestAudio

\* ----------------------------------------------------------------- helpers
\* A new call takes the lowest free slot, if the run allows one more.
FreeSlot(t) ==
  /\ t <= scope.tasks
  /\ tasks[t].pc = "idle"
  /\ \A u \in Tasks : u < t => tasks[u].pc # "idle"

\* `new AudioCtx(...)` and getUserMedia() hand out the lowest unused id.
NewCtx(c) ==
  /\ ctxState[c] = "unborn"
  /\ \A d \in 1..MaxCtx : d < c => ctxState[d] # "unborn"

NewStream(s) ==
  /\ streams[s] = "unborn"
  /\ \A d \in 1..MaxStreams : d < s => streams[d] # "unborn"

\* The platform answers the requests on one context in the order they were made.
CtxHead(t) ==
  \E i \in 1..Len(ctxQ) :
    /\ ctxQ[i] = t
    /\ \A j \in 1..(i - 1) : tasks[ctxQ[j]].ctx # tasks[t].ctx

Dequeue(t) == SelectSeq(ctxQ, LAMBDA u : u # t)

Await(t, op, pc, ctx) ==
  [tasks EXCEPT ![t] = [op |-> op, pc |-> pc, ctx |-> ctx, chained |-> FALSE]]

\* The call goes on to its next await inside a continuation.
Goto(t, pc) == [tasks EXCEPT ![t].pc = pc, ![t].chained = TRUE]

Return(t) == [tasks EXCEPT ![t] = Idle]

\* A start() or a suspend() is pending.
Overlaps == \E t \in Tasks : tasks[t].op \in {"start", "suspend"}

\* history: which call sequence a new call of `op` begins or continues.
\*   s1, s1done, s2, s2done: a first start() alone, then a second start() alone
\*   z1, z1done, z2, z2done: suspend() from Running alone, then start() alone
\*   d1: destroy() has been called, and no call has been made since
\*   t1, t2, t2done: startTestAudio() with the microphone at the head of the
\*     graph and no call pending, then stopTestAudio()
\*   overlap: start() or suspend() has been called while a start() or a
\*     suspend() was pending, and no other call has been made since; `last`
\*     is the one called last
\*   t3: then startTestAudio() again, the engine being as it was before the
\*     first one, which filled its buffer with the samples `first`
MonInvoke(op) ==
  IF mon.k = "ramp" THEN mon
  ELSE IF op \in {"start", "suspend"} /\ Overlaps
  THEN [k |-> "overlap", snap |-> [last |-> op]]
  ELSE IF op = "destroy" THEN [k |-> "d1", snap |-> Null]
  ELSE IF op = "startTestAudio"
  THEN IF context # 0 /\ ~_isTesting /\ AllIdle /\ micSource = "connected"
       THEN IF mon.k = "t2done" /\ View = mon.snap
            THEN [k |-> "t3", snap |-> [first |-> noise]]
            ELSE [k |-> "t1", snap |-> View]
       ELSE MonOff
  ELSE IF op = "stopTestAudio"
  THEN IF mon.k = "t1" THEN [k |-> "t2", snap |-> mon.snap] ELSE MonOff
  ELSE IF op = "start" /\ graph = 0 /\ AllIdle THEN [k |-> "s1", snap |-> Null]
  ELSE IF op = "start" /\ mon.k = "s1done" THEN [k |-> "s2", snap |-> mon.snap]
  ELSE IF op = "start" /\ mon.k = "z1done" THEN [k |-> "z2", snap |-> mon.snap]
  ELSE IF op = "suspend" /\ isRunning /\ AllIdle THEN [k |-> "z1", snap |-> View]
  ELSE MonOff

\* history: the ramps are followed.
\*   ramp: `changes` calls have set ramp targets; the last found the live
\*     values at `from`, and `steps` blocks of 25 ms have been rendered since
MonRamp ==
  [k |-> "ramp", snap |-> [changes |-> mon.snap.changes + 1, steps |-> 0, from |-> live]]

\* history: setProfile() right after setEnvironment(), or the other way
\* round, with the engine as it was before the first of the two.
\*   p1: setProfile()      pe: setProfile() then setEnvironment()
\*   e1: setEnvironment()  ep: setEnvironment() then setProfile()
MonSetter(op) ==
  IF mon.k = "ramp" THEN MonRamp
  ELSE IF ~scope.pairs THEN MonOff
  ELSE IF op = "setProfile"
  THEN IF mon.k = "e1" THEN [k |-> "ep", snap |-> mon.snap]
       ELSE [k |-> "p1", snap |-> View]
  ELSE IF op = "setEnvironment"
  THEN IF mon.k = "p1" THEN [k |-> "pe", snap |-> mon.snap]
       ELSE [k |-> "e1", snap |-> View]
  ELSE MonOff

\* history: getUserMedia() has been rejected with `cause` for a call of `op`.
\*   startFailed: for a start(), which throws `error`; the stage targets
\*     were `targets` when it did.  After a destroy() the mark d1 stays.
MonFailed(op, cause, error) ==
  IF op = "start"
  THEN [ k |-> IF mon.k = "d1" THEN "d1" ELSE "startFailed",
         snap |-> [cause |-> cause, error |-> error, targets |-> targets] ]
  ELSE IF mon.k = "d1" THEN mon ELSE MonOff

\* history: the call under way has completed, with the engine now at `after`
MonDone(after) ==
  CASE mon.k = "ramp" -> MonRamp
    [] mon.k = "s1" -> [k |-> "s1done", snap |-> after]
    [] mon.k = "s2" -> [k |-> "s2done", snap |-> mon.snap]
    [] mon.k = "z1" -> [k |-> "z1done", snap |-> mon.snap]
    [] mon.k = "z2" -> [k |-> "z2done", snap |-> mon.snap]
    [] mon.k = "t2" -> [k |-> "t2done", snap |-> mon.snap]
    [] mon.k = "d1" -> mon
    [] mon.k = "overlap" -> mon
    [] OTHER -> MonOff

\* history: a call has failed, or a call outside the s and z sequences has ended
MonEnded == IF mon.k \in {"d1", "overlap"} THEN mon ELSE MonOff

\* ------------------------------------------------------------------ start()
\* start() up to its first await: initialize() either resumes the context,
\* or marks the engine running, or builds the graph and attaches the
\* microphone (_attachMicrophone up to getUserMedia).
start ==
  \E t \in Tasks :
    /\ ~Chained
    /\ FreeSlot(t)
    /\ mon' = MonInvoke("start")
    /\ UNCHANGED <<scope, noise>>
    /\ spectrum' = IF HasContext THEN spectrum ELSE "zero"
    /\ chain' = IF HasContext THEN chain
                ELSE [nodes |-> BuildNodes, connections |-> ConnectStaticChain]
    /\ live' = IF HasContext THEN live ELSE Written(InitialTargets)
    /\ IF HasContext
       THEN IF ctxState[context] = "suspended"
            THEN /\ tasks' = Await(t, "start", "resume", context)
                 /\ ctxQ' = Append(ctxQ, t)
                 /\ UNCHANGED <<context, ctxState, stream, streams, graph, targets,
                                micSource, testSource, _isRunning, _currentMode,
                                _currentProfile, _isBypassed, _isTesting>>
            ELSE /\ _isRunning' = TRUE
                 /\ tasks' = Await(t, "start", "init_ret", context)
                 /\ UNCHANGED <<context, ctxState, ctxQ, stream, streams, graph,
                                targets, micSource, testSource, _currentMode,
                                _currentProfile, _isBypassed, _isTesting>>
       ELSE \E c \in 1..MaxCtx :
              /\ NewCtx(c)
              /\ context' = c
              /\ ctxState' = [ctxState EXCEPT ![c] = "running"]
              /\ graph' = c
              /\ targets' = InitialTargets
              /\ testSource' = "null"
              /\ _isTesting' = IF testSource # "null" THEN FALSE ELSE _isTesting
              /\ IF NeedsDevice
                 THEN /\ tasks' = Await(t, "start", "gum", c)
                      /\ UNCHANGED micSource
                 ELSE /\ micSource' = "connected"
                      /\ tasks' = Await(t, "start", "attach_ret", c)
              /\ UNCHANGED <<ctxQ, stream, streams, _isRunning, _currentMode,
                             _currentProfile, _isBypassed>>

\* context.resume() is answered: initialize() marks the engine running.
\* A context closed in the meantime stays closed; whether the promise then
\* resolves or rejects is the platform's choice.
resumeResolved ==
  \E t \in Tasks :
    /\ ~Microtask
    /\ tasks[t].pc = "resume"
    /\ CtxHead(t)
    /\ ctxQ' = Dequeue(t)
    /\ UNCHANGED <<context, stream, streams, graph, targets, micSource, testSource,
                   _currentMode, _currentProfile, _isBypassed, _isTesting, scope, spectrum, chain, live, noise>>
    /\ IF ctxState[tasks[t].ctx] = "closed"
       THEN /\ UNCHANGED ctxState
            /\ \E rejected \in BOOLEAN :
                 IF rejected
                 THEN /\ tasks' = Return(t)
                      /\ mon' = MonEnded
                      /\ UNCHANGED _isRunning
                 ELSE /\ _isRunning' = TRUE
                      /\ tasks' = Goto(t, "init_ret")
                      /\ mon' = mon
       ELSE /\ ctxState' = [ctxState EXCEPT ![tasks[t].ctx] = "running"]
            /\ _isRunning' = TRUE
            /\ tasks' = Goto(t, "init_ret")
            /\ mon' = mon

\* The rejections of getUserMedia(): a DOMException with a name and a message.
DeviceErrors ==
  { [name |-> "NotAllowedError", message |-> "Permission denied"],
    [name |-> "NotFoundError", message |-> "Requested device not found"],
    [name |-> "NotReadableError", message |-> "Could not start audio source"],
    [name |-> "AbortError", message |-> "Starting audio input failed"] }

\* getUserMedia() resolves with a MediaStream.
Granted == [name |-> "stream", message |-> ""]

\* Lines 213-221: the Error thrown for a rejection; a message is the
\* sequence of the parts of its template.
MicError(err) ==
  IF err.name = "NotAllowedError"
  THEN [message |-> <<"Microphone permission denied. Please allow mic access and try again.">>]
  ELSE IF err.name = "NotFoundError"
  THEN [message |-> <<"No microphone found. Please connect a mic and try again.">>]
  ELSE [message |-> <<"Microphone error: ", err.message>>]

\* getUserMedia() is answered for a start() or a stopTestAudio():
\* _attachMicrophone from line 204 on.
deviceAnswered ==
  \E t \in Tasks, outcome \in {Granted} \cup DeviceErrors :
    /\ ~Microtask
    /\ tasks[t].pc = "gum"
    /\ UNCHANGED <<ctxState, ctxQ, graph, targets, testSource, _isRunning,
                   _currentMode, _currentProfile, _isBypassed, _isTesting, scope, spectrum, chain, live, noise>>
    /\ UNCHANGED context
    /\ IF outcome = Granted
       THEN \E s \in 1..MaxStreams :
              /\ NewStream(s)
              /\ streams' = [streams EXCEPT ![s] = "live"]
              /\ stream' = s
              /\ IF context = 0
                 THEN \* this.context.createMediaStreamSource throws a TypeError
                      /\ micSource' = Disconnected(micSource)
                      /\ tasks' = Return(t)
                      /\ mon' = MonEnded
                 ELSE /\ micSource' = "connected"
                      /\ IF tasks[t].op = "start"
                         THEN /\ tasks' = Goto(t, "attach_ret")
                              /\ mon' = mon
                         ELSE /\ tasks' = Return(t)
                              /\ mon' = MonDone(View')
       ELSE /\ tasks' = Return(t)
            /\ mon' = MonFailed(tasks[t].op, outcome, MicError(outcome))
            /\ UNCHANGED <<stream, streams, micSource>>

\* The device behind a stream goes away: its tracks end and the stream is
\* no longer active (what line 202 tests for).  Not a call: any sequence of
\* calls the history follows is over.
trackEnded ==
  \E s \in 1..MaxStreams :
    /\ ~Microtask
    /\ streams[s] = "live"
    /\ streams' = [streams EXCEPT ![s] = "ended"]
    /\ mon' = MonEnded
    /\ UNCHANGED <<context, ctxState, ctxQ, stream, graph, targets, micSource,
                   testSource, _isRunning, _currentMode, _currentProfile,
                   _isBypassed, _isTesting, tasks, scope, spectrum, chain, live, noise>>

\* initialize() after `await this._attachMicrophone()`, line 168
attached ==
  \E t \in Tasks :
    /\ tasks[t].pc = "attach_ret"
    /\ _isRunning' = TRUE
    /\ tasks' = Goto(t, "init_ret")
    /\ mon' = mon
    /\ UNCHANGED <<context, ctxState, ctxQ, stream, streams, graph, targets,
                   micSource, testSource, _currentMode, _currentProfile,
                   _isBypassed, _isTesting, scope, spectrum, chain, live, noise>>

\* Line 235, mutated: start() leaves the bypass flag as it is.
StartBypassKept == _isBypassed

\* Line 235: this._isBypassed = false
StartBypass == FALSE

\* start() after `await this.initialize()`, lines 235-236
started ==
  \E t \in Tasks :
    /\ tasks[t].pc = "init_ret"
    /\ _isBypassed' = StartBypass
    /\ targets' = ApplySettings(context, _currentProfile, _currentMode, StartBypass, targets)
    /\ tasks' = Return(t)
    /\ UNCHANGED <<context, ctxState, ctxQ, stream, streams, graph, micSource,
                   testSource, _isRunning, _currentMode, _currentProfile,
                   _isTesting, scope, spectrum, chain, noise>>
    /\ live' = ApplyLive(context, _currentProfile, live, targets')
    /\ mon' = MonDone(View')

\* ---------------------------------------------------------------- suspend()
\* suspend() up to its await, or all of it when the context is not running.
suspend ==
  /\ ~Chained
  /\ UNCHANGED <<context, ctxState, stream, streams, graph, targets, micSource,
                 testSource, _currentMode, _currentProfile, _isTesting, scope, spectrum, chain, live, noise>>
  /\ IF context # 0 /\ ctxState[context] = "running"
     THEN \E t \in Tasks :
            /\ FreeSlot(t)
            /\ tasks' = Await(t, "suspend", "suspend", context)
            /\ ctxQ' = Append(ctxQ, t)
            /\ mon' = MonInvoke("suspend")
            /\ UNCHANGED <<_isRunning, _isBypassed>>
     ELSE /\ _isRunning' = FALSE
          /\ _isBypassed' = TRUE
          /\ mon' = MonInvoke("suspend")
          /\ UNCHANGED <<tasks, ctxQ>>

\* Line 242, mutated: suspend() closes the context instead.
SuspendedStateClosed == "closed"

\* AudioContext.state once `await this.context.suspend()` has resolved
SuspendedState == "suspended"

\* context.suspend() is answered: lines 244-245.
suspendResolved ==
  \E t \in Tasks :
    /\ ~Microtask
    /\ tasks[t].pc = "suspend"
    /\ CtxHead(t)
    /\ ctxQ' = Dequeue(t)
    /\ tasks' = Return(t)
    /\ UNCHANGED <<context, stream, streams, graph, targets, micSource, testSource,
                   _currentMode, _currentProfile, _isTesting, scope, spectrum, chain, live, noise>>
    /\ IF ctxState[tasks[t].ctx] = "closed"
       THEN /\ UNCHANGED ctxState
            /\ \E rejected \in BOOLEAN :
                 IF rejected
                 THEN UNCHANGED <<_isRunning, _isBypassed>>
                 ELSE _isRunning' = FALSE /\ _isBypassed' = TRUE
            /\ mon' = MonEnded
       ELSE /\ ctxState' = [ctxState EXCEPT ![tasks[t].ctx] = SuspendedState]
            /\ _isRunning' = FALSE
            /\ _isBypassed' = TRUE
            /\ mon' = MonDone(View')

\* ---------------------------------------------------------------- destroy()
\* destroy() up to `await this.context.close()`, or all of it without a context.
destroy ==
  /\ ~Chained
  /\ mon' = MonInvoke("destroy")
  /\ streams' = IF stream # 0 THEN [streams EXCEPT ![stream] = "stopped"] ELSE streams
  /\ stream' = 0
  /\ testSource' = "null"
  /\ UNCHANGED <<context, ctxState, graph, targets, _currentMode, _currentProfile,
                 _isBypassed, scope, spectrum, chain, live, noise>>
  /\ IF context # 0
     THEN \E t \in Tasks :
            /\ FreeSlot(t)
            /\ tasks' = Await(t, "destroy", "close", context)
            /\ ctxQ' = Append(ctxQ, t)
            /\ UNCHANGED <<micSource, _isRunning, _isTesting>>
     ELSE /\ micSource' = "null"
          /\ _isRunning' = FALSE
          /\ _isTesting' = FALSE
          /\ UNCHANGED <<tasks, ctxQ>>

\* context.close() is answered: lines 260-264.
closeResolved ==
  \E t \in Tasks :
    /\ ~Microtask
    /\ tasks[t].pc = "close"
    /\ CtxHead(t)
    /\ ctxQ' = Dequeue(t)
    /\ tasks' = Return(t)
    /\ ctxState' = [ctxState EXCEPT ![tasks[t].ctx] = "closed"]
    /\ context' = 0
    /\ micSource' = "null"
    /\ _isRunning' = FALSE
    /\ _isTesting' = FALSE
    /\ mon' = MonEnded
    /\ UNCHANGED <<stream, streams, graph, targets, testSource, _currentMode,
                   _currentProfile, _isBypassed, scope, spectrum, chain, live, noise>>

\* -------------------------------------------------------------- test audio
\* startTestAudio(), lines 273-304
startTestAudio ==
  /\ ~Chained
  /\ mon' = MonInvoke("startTestAudio")
  /\ UNCHANGED <<context, ctxState, ctxQ, stream, streams, graph, targets,
                 _isRunning, _currentMode, _currentProfile, _isBypassed, tasks,
                 scope, spectrum, chain, live>>
  /\ IF context = 0 \/ _isTesting
     THEN UNCHANGED <<_isTesting, micSource, testSource, noise>>
     ELSE /\ _isTesting' = TRUE
          /\ micSource' = Disconnected(micSource)
          /\ \E w \in scope.noises : noise' = w
          /\ testSource' = "playing"

\* stopTestAudio() up to getUserMedia, or all of it when the stream is reused
stopTestAudio ==
  /\ ~Chained
  /\ _isTesting' = FALSE
  /\ testSource' = "null"
  /\ UNCHANGED <<context, ctxState, ctxQ, stream, streams, graph, targets,
                 _isRunning, _currentMode, _currentProfile, _isBypassed, scope, spectrum, chain, live, noise>>
  /\ IF context = 0
     THEN /\ mon' = MonOff
          /\ UNCHANGED <<micSource, tasks>>
     ELSE IF NeedsDevice
          THEN \E t \in Tasks :
                 /\ FreeSlot(t)
                 /\ tasks' = Await(t, "stopTestAudio", "gum", context)
                 /\ mon' = MonInvoke("stopTestAudio")
                 /\ UNCHANGED micSource
          ELSE /\ micSource' = "connected"
               /\ mon' = IF mon.k = "t1" THEN [k |-> "t2done", snap |-> mon.snap]
                                        ELSE MonOff
               /\ UNCHANGED tasks

\* ----------------------------------------------------------------- setters
\* setProfile(profile), lines 317-320
profileSet(profile) ==
  /\ _currentProfile' = profile
  /\ targets' = ApplySettings(context, profile, _currentMode, _isBypassed, targets)
  /\ live' = ApplyLive(context, profile, live, targets')
  /\ mon' = MonSetter("setProfile")
  /\ UNCHANGED <<context, ctxState, ctxQ, stream, streams, graph, micSource,
                 testSource, _isRunning, _currentMode, _isBypassed, _isTesting,
                 tasks, scope, spectrum, chain, noise>>

setProfile == \E profile \in scope.profiles : ~Chained /\ profileSet(profile)

setEnvironment ==
  \E mode \in scope.modes :
    /\ ~Chained
    /\ _currentMode' = mode
    /\ targets' = ApplySettings(context, _currentProfile, mode, _isBypassed, targets)
    /\ live' = ApplyLive(context, _currentProfile, live, targets')
    /\ mon' = MonSetter("setEnvironment")
    /\ UNCHANGED <<context, ctxState, ctxQ, stream, streams, graph, micSource,
                   testSource, _isRunning, _currentProfile, _isBypassed, _isTesting,
                   tasks, scope, spectrum, chain, noise>>

setBypass ==
  \E bypass \in BOOLEAN :
    /\ ~Chained
    /\ _isBypassed' = bypass
    /\ targets' = ApplySettings(context, _currentProfile, _currentMode, bypass, targets)
    /\ live' = ApplyLive(context, _currentProfile, live, targets')
    /\ mon' = MonSetter("setBypass")
    /\ UNCHANGED <<context, ctxState, ctxQ, stream, streams, graph, micSource,
                   testSource, _isRunning, _currentMode, _currentProfile, _isTesting,
                   tasks, scope, spectrum, chain, noise>>

\* setMasterVolume(value), value in hundredths: clamp to [0, 4]
setMasterVolume ==
  \E value \in scope.volumes :
    /\ ~Chained
    /\ targets' = IF graph # 0 /\ context # 0
                  THEN [targets EXCEPT !.gain = Clamp(value, 0, 400)]
                  ELSE targets
    /\ live' = IF graph # 0 /\ context # 0
               THEN [live EXCEPT !.gain = SetTargetAtTime(live.gain, targets'.gain)]
               ELSE live
    /\ mon' = MonSetter("setMasterVolume")
    /\ UNCHANGED <<context, ctxState, ctxQ, stream, streams, graph, micSource,
                   testSource, _isRunning, _currentMode, _currentProfile,
                   _isBypassed, _isTesting, tasks, scope, spectrum, chain, noise>>

\* ------------------------------------------------- the engine on its own
\* The calls and continuations of the engine with no page around it: the
\* user store and the pages stay as they are.
Start == start /\ UNCHANGED <<users, dash, app>>

ResumeResolved == resumeResolved /\ UNCHANGED <<users, dash, app>>

DeviceAnswered == deviceAnswered /\ UNCHANGED <<users, dash, app>>

TrackEnded == trackEnded /\ UNCHANGED <<users, dash, app>>

Attached == attached /\ UNCHANGED <<users, dash, app>>

Started == started /\ UNCHANGED <<users, dash, app>>

Suspend == suspend /\ UNCHANGED <<users, dash, app>>

SuspendResolved == suspendResolved /\ UNCHANGED <<users, dash, app>>

Destroy == destroy /\ UNCHANGED <<users, dash, app>>

CloseResolved == closeResolved /\ UNCHANGED <<users, dash, app>>

StartTestAudio == startTestAudio /\ UNCHANGED <<users, dash, app>>

StopTestAudio == stopTestAudio /\ UNCHANGED <<users, dash, app>>

SetProfile == setProfile /\ UNCHANGED <<users, dash, app>>

SetEnvironment == setEnvironment /\ UNCHANGED <<users, dash, app>>

SetBypass == setBypass /\ UNCHANGED <<users, dash, app>>

SetMasterVolume == setMasterVolume /\ UNCHANGED <<users, dash, app>>

\* ------------------------------------------------------------ the analyser
\* Sound can reach the analyser: a source that carries a signal is connected
\* to the gain node and the master gain is not shut.
CanHear ==
  /\ \/ micSource = "connected" /\ \E s \in 1..MaxStreams : streams[s] = "live"
     \/ testSource = "playing"
  /\ targets.gain > 0

\* The context of the nodes renders a block: the analyser computes a new
\* spectrum, of the sound that reaches it or of silence.  A suspended or
\* closed context renders nothing, and the analyser keeps what it has.
Render ==
  /\ graph # 0
  /\ ctxState[graph] = "running"
  /\ \E heard \in {"zero", "data"} :
       /\ heard = "data" => CanHear
       /\ heard # spectrum
       /\ spectrum' = heard
  /\ UNCHANGED <<context, ctxState, ctxQ, stream, streams, graph, targets,
                 micSource, testSource, _isRunning, _currentMode, _currentProfile,
                 _isBypassed, _isTesting, tasks, scope, chain, live, noise, users,
                 dash, app, mon>>

\* getAnalyser() (lines 412-414) and a read of the node's frequency data:
\* the node is handed out whatever the phase (null before the graph is built).
SpectrumSnapshot == IF graph = 0 THEN "none" ELSE spectrum

\* ------------------------------------------------------------ specification
Next ==
  \/ Start
  \/ ResumeResolved
  \/ DeviceAnswered
  \/ TrackEnded
  \/ Attached
  \/ Started
  \/ Suspend
  \/ SuspendResolved
  \/ Destroy
  \/ CloseResolved
  \/ StartTestAudio
  \/ StopTestAudio
  \/ SetProfile
  \/ SetEnvironment
  \/ SetBypass
  \/ SetMasterVolume

\* Overlapping asynchronous calls.
Spec == Init /\ [][Next]_vars

\* One asynchronous call at a time.
SpecSeq == InitSeq /\ [][Next]_vars

\* One asynchronous call at a time, with the setter pairs followed.
SpecPairs == InitPairs /\ [][Next]_vars

\* One asynchronous call at a time, with test buffers that differ.
SpecNoise == InitNoise /\ [][Next]_vars

\* One asynchronous call at a time, with the audio being rendered.
NextTap == Next \/ Render

SpecTap == InitSeq /\ [][NextTap]_vars

\* ---------------------------------------------------------- the ramps run
\* The context of the nodes renders 25 ms of audio: every ramped parameter
\* moves toward its target.  A context that is not running renders nothing.
Smooth ==
  /\ mon.k = "ramp"
  /\ mon.snap.steps < MaxSmooth
  /\ graph # 0
  /\ ctxState[graph] = "running"
  /\ live' = Smoothed(live, targets)
  /\ mon' = [mon EXCEPT !.snap.steps = @ + 1]
  /\ UNCHANGED <<context, ctxState, ctxQ, stream, streams, graph, targets,
                 micSource, testSource, _isRunning, _currentMode, _currentProfile,
                 _isBypassed, _isTesting, tasks, scope, spectrum, chain, noise,
                 users, dash, app>>

\* The engine after a first start() that has completed, before any setter:
\* Running on the microphone, no profile, the parameters at the values
\* initialize() has written.
InitRamp ==
  /\ context = 1
  /\ ctxState = [c \in 1..MaxCtx |-> IF c = 1 THEN "running" ELSE "unborn"]
  /\ ctxQ = << >>
  /\ stream = 1
  /\ streams = [s \in 1..MaxStreams |-> IF s = 1 THEN "live" ELSE "unborn"]
  /\ graph = 1
  /\ targets = InitialTargets
  /\ micSource = "connected"
  /\ testSource = "null"
  /\ _isRunning = TRUE
  /\ _currentMode = "QUIET"
  /\ _currentProfile = Null
  /\ _isBypassed = FALSE
  /\ _isTesting = FALSE
  /\ tasks = [t \in Tasks |-> Idle]
  /\ scope = Ramping
  /\ spectrum = "zero"
  /\ chain = [nodes |-> BuildNodes, connections |-> ConnectStaticChain]
  /\ live = Written(InitialTargets)
  /\ noise = 0
  /\ NoPages
  /\ mon = [k |-> "ramp", snap |-> [changes |-> 0, steps |-> 0, from |-> Written(InitialTargets)]]

\* The run allows one more call that sets ramp targets.
RampBudget == mon.snap.changes < MaxChanges

NextRamp ==
  \/ RampBudget /\ SetProfile
  \/ RampBudget /\ SetEnvironment
  \/ RampBudget /\ SetBypass
  \/ RampBudget /\ SetMasterVolume
  \/ RampBudget /\ Start
  \/ Started
  \/ Smooth

\* The setters and start() on a running engine, with the audio being rendered.
SpecRamp == InitRamp /\ [][NextRamp]_vars

\* ------------------------------------------------------------ the dashboard
\* DashboardPage (pages/SetupProfilePage.tsx, lines 263-362) on the shared
\* engine.  `dash` holds its React state and refs, the `user.profile` it was
\* given, and what its handlers wait for:
\*   waits[t]    the handler that awaits the engine call in slot t, with the
\*               `mode` its closure has captured
\*   settled[t]  how that call has ended, once it has: the handler goes on
\*               in a microtask, before any event or any other handler
\* The runs leave the test-audio button alone (isTestingAudio stays false).
NoWait == [k |-> "none", mode |-> "QUIET"]

Pending == [state |-> "pending", message |-> << >>]

Mounted(profile) ==
  [ isAssistOn |-> isRunning,
    mode |-> "QUIET",
    isTestingAudio |-> FALSE,
    audioStatus |-> IF isRunning THEN "running" ELSE "idle",
    micError |-> Null,
    analyser |-> "null",
    startingRef |-> FALSE,
    profile |-> profile,
    waits |-> [t \in Tasks |-> NoWait],
    settled |-> [t \in Tasks |-> Pending] ]

\* Everything but the pages and the user store.
engineSide ==
  <<context, ctxState, ctxQ, stream, streams, graph, targets, micSource,
    testSource, _isRunning, _currentMode, _currentProfile, _isBypassed,
    _isTesting, tasks, scope, spectrum, chain, live, noise, mon>>

\* A continuation of a handler is queued.
PagePending == \E t \in Tasks : dash.settled[t].state # "pending"

\* No microtask is queued: the next event can be handled.
Quiet == ~Microtask /\ ~PagePending

\* The slots taken by the engine call this step makes.
Called == {t \in Tasks : tasks[t].pc = "idle" /\ tasks'[t].pc # "idle"}

\* How the engine call in slot t ends in this step: start(), suspend() and
\* destroy() return from their last continuation, and throw from an
\* earlier one.
Outcome(t) ==
  IF tasks[t].pc \in {"init_ret", "suspend", "close"}
  THEN [state |-> "ok", message |-> << >>]
  ELSE [ state |-> "error",
         message |-> IF mon'.k = "startFailed" THEN mon'.snap.error.message
                                               ELSE <<"TypeError">> ]

\* The page after a step of the engine: the calls that have ended in it
\* settle the awaits of the handlers.
Settle ==
  [dash EXCEPT !.settled =
     [t \in Tasks |-> IF /\ dash.waits[t].k # "none"
                         /\ tasks[t].pc # "idle"
                         /\ tasks'[t].pc = "idle"
                      THEN Outcome(t)
                      ELSE dash.settled[t]]]

\* Line 279, mutated: startAudio() does not look at the guard.
StartingNever(d) == FALSE

\* `if (startingRef.current) return`, line 279
Starting(d) == d.startingRef

\* handleToggle(), lines 308-322, with startAudio() up to its await
\* (278-285) or suspendAudio() up to its await, or to its end when
\* suspend() does not wait (302-305).  The button is disabled while
\* audioStatus is 'starting' (line 429).
HandleToggle ==
  /\ Quiet
  /\ dash.audioStatus # "starting"
  /\ UNCHANGED <<users, app>>
  /\ IF ~dash.isAssistOn
     THEN IF Starting(dash)
          THEN /\ dash' = [dash EXCEPT !.isAssistOn = TRUE]
               /\ UNCHANGED engineSide
          ELSE /\ start
               /\ dash' = [dash EXCEPT
                    !.isAssistOn = TRUE,
                    !.startingRef = TRUE,
                    !.audioStatus = "starting",
                    !.micError = Null,
                    !.waits = [t \in Tasks |->
                                 IF t \in Called
                                 THEN [k |-> "startAudio", mode |-> dash.mode]
                                 ELSE dash.waits[t]]]
     ELSE /\ suspend
          /\ dash' = [dash EXCEPT
               !.isAssistOn = FALSE,
               !.audioStatus = IF Called = {} THEN "idle" ELSE dash.audioStatus,
               !.waits = [t \in Tasks |->
                            IF t \in Called
                            THEN [k |-> "suspendAudio", mode |-> dash.mode]
                            ELSE dash.waits[t]]]

\* handleModeChange(newMode), lines 325-328
HandleModeChange ==
  /\ Quiet
  /\ setEnvironment
  /\ dash' = [dash EXCEPT !.mode = _currentMode']
  /\ UNCHANGED <<users, app>>

\* Lines 288-289: setProfile(user.profile) if the user has a profile, then
\* setEnvironment(mode).
profileAndMode(profile, mode) ==
  LET p == IF profile # Null THEN profile ELSE _currentProfile
      tg == IF profile # Null
            THEN ApplySettings(context, p, _currentMode, _isBypassed, targets)
            ELSE targets
      lv == IF profile # Null THEN ApplyLive(context, p, live, tg) ELSE live
  IN  /\ _currentProfile' = p
      /\ _currentMode' = mode
      /\ targets' = ApplySettings(context, p, mode, _isBypassed, tg)
      /\ live' = ApplyLive(context, p, lv, targets')
      /\ mon' = MonSetter("setEnvironment")
      /\ UNCHANGED <<context, ctxState, ctxQ, stream, streams, graph, micSource,
                     testSource, _isRunning, _isBypassed, _isTesting, tasks,
                     scope, spectrum, chain, noise>>

\* startAudio() after `await audioEngine.start()`: lines 287-292 when the
\* call has returned (setProfile(user.profile), then setEnvironment(mode)
\* with the mode of the closure), lines 293-296 when it has thrown, and
\* the `finally` of line 298 in both cases.
StartAudioSettled ==
  \E t \in Tasks :
    /\ dash.waits[t].k = "startAudio"
    /\ dash.settled[t].state # "pending"
    /\ UNCHANGED <<users, app>>
    /\ IF dash.settled[t].state = "ok"
       THEN /\ profileAndMode(dash.profile, dash.waits[t].mode)
            /\ dash' = [dash EXCEPT
                 !.analyser = IF graph # 0 THEN "node" ELSE "null",
                 !.audioStatus = "running",
                 !.startingRef = FALSE,
                 !.waits[t] = NoWait,
                 !.settled[t] = Pending]
       ELSE /\ dash' = [dash EXCEPT
                 !.micError = [message |-> dash.settled[t].message],
                 !.audioStatus = "error",
                 !.isAssistOn = FALSE,
                 !.startingRef = FALSE,
                 !.waits[t] = NoWait,
                 !.settled[t] = Pending]
            /\ UNCHANGED engineSide

\* suspendAudio() after `await audioEngine.suspend()`, line 304; a call
\* that has thrown ends the handler.
SuspendAudioSettled ==
  \E t \in Tasks :
    /\ dash.waits[t].k = "suspendAudio"
    /\ dash.settled[t].state # "pending"
    /\ dash' = [dash EXCEPT
         !.audioStatus = IF dash.settled[t].state = "ok" THEN "idle" ELSE dash.audioStatus,
         !.waits[t] = NoWait,
         !.settled[t] = Pending]
    /\ UNCHANGED engineSide
    /\ UNCHANGED <<users, app>>

\* The continuations of the engine, with the page around it: none runs
\* while a continuation of a handler is queued.
PageResumeResolved == ~PagePending /\ resumeResolved /\ dash' = Settle /\ UNCHANGED <<users, app>>

PageDeviceAnswered == ~PagePending /\ deviceAnswered /\ dash' = Settle /\ UNCHANGED <<users, app>>

PageAttached == ~PagePending /\ attached /\ dash' = Settle /\ UNCHANGED <<users, app>>

PageStarted == ~PagePending /\ started /\ dash' = Settle /\ UNCHANGED <<users, app>>

PageSuspendResolved == ~PagePending /\ suspendResolved /\ dash' = Settle /\ UNCHANGED <<users, app>>

\* The dashboard is mounted on an engine nothing has started yet, for a
\* user with or without a saved profile.
InitDash ==
  /\ InitEngine
  /\ users = << >>
  /\ app = Null
  /\ scope = Dashboard
  /\ \E profile \in {Null} \cup Dashboard.profiles : dash = Mounted(profile)

NextDash ==
  \/ HandleToggle
  \/ HandleModeChange
  \/ StartAudioSettled
  \/ SuspendAudioSettled
  \/ PageResumeResolved
  \/ PageDeviceAnswered
  \/ PageAttached
  \/ PageStarted
  \/ PageSuspendResolved

SpecDash == InitDash /\ [][NextDash]_vars

\* ----------------------------------------------------------- the user store
\* services/databaseService.ts.  A stored user is kept with the fields the
\* store compares and updates: id, email, username, profile (the name, the
\* dates and the password hash are left out).  Texts are sequences of
\* one-character strings.
Emails ==
  { <<"a","n","n","@","x",".","i","o">>,
    <<"A","n","n","@","X",".","I","O">>,
    <<"b","o","b","@","x",".","i","o">> }

Usernames == { <<"a","n","n">>, <<"A","N","N">>, <<"b","o","b">> }

\* Passwords of 5 and of 6 characters.
Passwords == { <<"p","w","1","2","3">>, <<"p","w","1","2","3","4">> }

UserIds == 1..MaxUsers

\* Lines 70 and 73, mutated: the texts are compared as they are written.
SameTextExact(a, b) == a = b

\* `u.email.toLowerCase() === email.toLowerCase()` (lines 70, 73)
SameText(a, b) == toLowerCase(a) = toLowerCase(b)

\* The Error createUser() throws for its arguments, "none" if it does not.
CreateUserError(stored, email, username, password) ==
  IF \E u \in DOMAIN stored : SameText(stored[u].email, email)
  THEN "This email is already registered."
  ELSE IF \E u \in DOMAIN stored : SameText(stored[u].username, username)
  THEN "This username is already taken."
  ELSE IF Len(password) < 6
  THEN "Password must be at least 6 characters."
  ELSE "none"

\* createUser(name, email, username, password), lines 67-93.  It has no
\* await: the store is loaded, checked and saved in one step.  The id is
\* what generateId() makes of the clock and Math.random().
createUser ==
  \E email \in Emails, username \in Usernames, password \in Passwords, id \in UserIds :
    LET error == CreateUserError(users, email, username, password)
        newUser == [id |-> id, email |-> email, username |-> username, profile |-> Null]
    IN  /\ users' = IF error = "none" THEN (id :> newUser) @@ users ELSE users
        /\ mon' = [ k |-> "createUser",
                    snap |-> [ email |-> email, username |-> username,
                               password |-> password, error |-> error ] ]

\* updateHearingProfile(userId, profile), lines 120-130
updateHearingProfile ==
  \E userId \in UserIds, profile \in scope.profiles :
    /\ users' = IF userId \in DOMAIN users
                THEN [users EXCEPT ![userId].profile = profile]
                ELSE users
    /\ mon' = [ k |-> "updateHearingProfile",
                snap |-> [ error |-> IF userId \in DOMAIN users THEN "none"
                                                               ELSE "User not found." ] ]

\* The store on its own: the engine and the pages stay as they are.
CreateUser ==
  /\ createUser
  /\ UNCHANGED <<context, ctxState, ctxQ, stream, streams, graph, targets,
                 micSource, testSource, _isRunning, _currentMode, _currentProfile,
                 _isBypassed, _isTesting, tasks, scope, spectrum, chain, live,
                 noise, dash, app>>

UpdateHearingProfile ==
  /\ updateHearingProfile
  /\ UNCHANGED <<context, ctxState, ctxQ, stream, streams, graph, targets,
                 micSource, testSource, _isRunning, _currentMode, _currentProfile,
                 _isBypassed, _isTesting, tasks, scope, spectrum, chain, live,
                 noise, dash, app>>

NextUsers == CreateUser \/ UpdateHearingProfile

SpecUsers == InitSeq /\ [][NextUsers]_vars

\* ------------------------------------------------------------------ the app
\* App (App.tsx) with the setup page and the dashboard on the shared engine,
\* and the session authService keeps.  `app` holds
\*   view, currentUser   the state of App (lines 33-34)
\*   session             localStorage[SESSION_KEY]: the user as last persisted
\*   setup               the mounted SetupProfilePage (Null: none): its
\*                       `profile`, and which of the effects of its mount is
\*                       to run next
\*   waits, settled      as in `dash`, for handleLogout(), for
\*                       startLiveTuning(), and for the handlers of a
\*                       dashboard that has been unmounted while they waited
\*                       (with the `user.profile` their closure holds)
\* The splash, permission and sign-in pages are not followed: a run starts
\* on the page handlePermissionsComplete() opens, and ends at the AUTH view.
Application ==
  [ tasks |-> MaxTasks,
    profiles |-> {SpeechFocusProfile},
    modes |-> {"QUIET", "NOISY"},
    volumes |-> {250},
    noises |-> {1},
    pairs |-> FALSE ]

\* DEFAULT_PROFILE, SetupProfilePage.tsx lines 17-26
DEFAULT_PROFILE == HearingProfile(NameMildLoss, 0, 0, 0, 0, 0)

\* The band and the value a slider is moved to.
SliderMoves == {<<2000, MaxBand>>}

NoAppWait == [k |-> "none", mode |-> "QUIET", profile |-> Null]

\* The stored user, and the User the pages are given (toPublicUser(),
\* databaseService.ts 52-55), with the fields the pages read here.
StoredUser(profile) ==
  [ id |-> 1,
    email |-> <<"a","n","n","@","x",".","i","o">>,
    username |-> <<"a","n","n">>,
    profile |-> profile ]

toPublicUser(stored) == [id |-> stored.id, profile |-> stored.profile]

\* A continuation of handleLogout(), of startLiveTuning() or of a handler
\* of an unmounted dashboard is queued.
AppPending == \E t \in Tasks : app.settled[t].state # "pending"

\* The effects of a mount have not all run.
Mounting == app.setup # Null /\ app.setup.effects # "done"

\* The platform can settle a promise: nothing of the pages is queued.
Settled == ~AppPending /\ ~Mounting /\ (IF dash = Null THEN TRUE ELSE ~PagePending)

\* An event of the user can be handled.
Handled == ~Microtask /\ Settled

\* The dashboard leaves the screen: what its handlers wait for stays.
Unmounted ==
  [app EXCEPT
     !.waits = [t \in Tasks |->
                  IF dash # Null /\ dash.waits[t].k # "none"
                  THEN [ k |-> dash.waits[t].k, mode |-> dash.waits[t].mode,
                         profile |-> dash.profile ]
                  ELSE app.waits[t]],
     !.settled = [t \in Tasks |->
                    IF dash # Null /\ dash.waits[t].k # "none"
                    THEN dash.settled[t]
                    ELSE app.settled[t]]]

\* The pages after a step of the engine: the calls that have ended in it
\* settle the awaits of the handlers.
AppSettle ==
  /\ dash' = IF dash = Null THEN Null ELSE Settle
  /\ app' = [app EXCEPT !.settled =
               [t \in Tasks |-> IF /\ app.waits[t].k # "none"
                                   /\ tasks[t].pc # "idle"
                                   /\ tasks'[t].pc = "idle"
                                THEN Outcome(t)
                                ELSE app.settled[t]]]
  /\ UNCHANGED users

\* handleEditProfile(), App.tsx lines 66-68: the dashboard is unmounted and
\* the setup page is mounted with the profile of the user.  (Taken only if
\* the engine can take the call the mount makes.)
HandleEditProfile ==
  /\ Handled
  /\ app.view = "HOME"
  /\ IF isRunning THEN TRUE ELSE \E t \in Tasks : FreeSlot(t)
  /\ dash' = Null
  /\ app' = [Unmounted EXCEPT
       !.view = "SETUP_PROFILE",
       !.setup = [ profile |-> IF app.currentUser.profile # Null
                               THEN app.currentUser.profile
                               ELSE DEFAULT_PROFILE,
                   effects |-> "startLiveTuning",
                   error |-> "null" ]]
  /\ UNCHANGED engineSide
  /\ UNCHANGED users

\* The effect of lines 49-64 on mount: startLiveTuning() up to its await,
\* or to its end when the engine is running.
StartLiveTuning ==
  /\ app.setup # Null
  /\ app.setup.effects = "startLiveTuning"
  /\ UNCHANGED <<users, dash>>
  /\ IF isRunning
     THEN /\ profileSet(app.setup.profile)
          /\ app' = [app EXCEPT !.setup.effects = "profile"]
     ELSE /\ start
          /\ app' = [app EXCEPT
               !.setup.effects = "profile",
               !.waits = [t \in Tasks |->
                            IF t \in Called
                            THEN [ k |-> "startLiveTuning", mode |-> "QUIET",
                                   profile |-> app.setup.profile ]
                            ELSE app.waits[t]]]

\* The effect of lines 66-70, on mount.
ProfileEffect ==
  /\ app.setup # Null
  /\ app.setup.effects = "profile"
  /\ app' = [app EXCEPT !.setup.effects = "done"]
  /\ UNCHANGED <<users, dash>>
  /\ IF isRunning THEN profileSet(app.setup.profile) ELSE UNCHANGED engineSide

\* The page takes `profile`, and the effect of lines 66-70 runs for it.
Tuned(profile) ==
  /\ app' = [app EXCEPT !.setup.profile = profile]
  /\ UNCHANGED <<users, dash>>
  /\ IF isRunning THEN profileSet(profile) ELSE UNCHANGED engineSide

\* handleSliderChange(freq, value), lines 72-81
HandleSliderChange ==
  /\ Handled
  /\ app.view = "SETUP_PROFILE"
  /\ \E move \in SliderMoves :
       LET prev == app.setup.profile IN
         Tuned([ name |-> IF includes(prev.name, <<"C","u","s","t","o","m">>)
                          THEN prev.name ELSE NameCustom,
                 eqBands |-> [prev.eqBands EXCEPT ![move[1]] = move[2]] ])

\* handleUseSpeechProfile(), lines 96-107
HandleUseSpeechProfile ==
  /\ Handled
  /\ app.view = "SETUP_PROFILE"
  /\ Tuned(SpeechFocusProfile)

\* startLiveTuning() after `await audioEngine.start()`: line 58 with the
\* profile of the first render, or the catch of lines 59-61.
StartLiveTuningSettled ==
  \E t \in Tasks :
    /\ app.waits[t].k = "startLiveTuning"
    /\ app.settled[t].state # "pending"
    /\ app' = [app EXCEPT !.waits[t] = NoAppWait, !.settled[t] = Pending]
    /\ UNCHANGED <<users, dash>>
    /\ IF app.settled[t].state = "ok"
       THEN profileSet(app.waits[t].profile)
       ELSE UNCHANGED engineSide

\* handleSave(), lines 109-120, with authService.updateProfile()
\* (databaseService.ts 169-177, 120-130) and handleProfileComplete()
\* (App.tsx 60-64): the profile is stored, the session and the current
\* user are refreshed and the dashboard is mounted, where the effects of
\* lines 342-353 run; or the error is shown.
HandleSave ==
  LET userId == app.currentUser.id
      profile == app.setup.profile
      stored == [users EXCEPT ![userId].profile = profile]
  IN  /\ Handled
      /\ app.view = "SETUP_PROFILE"
      /\ IF userId \in DOMAIN users
         THEN /\ users' = stored
              /\ app' = [app EXCEPT
                   !.session = toPublicUser(stored[userId]),
                   !.currentUser = toPublicUser(stored[userId]),
                   !.view = "HOME",
                   !.setup = Null]
              /\ dash' = [Mounted(profile) EXCEPT
                   !.analyser = IF isRunning THEN "node" ELSE "null"]
              /\ IF isRunning THEN profileSet(profile) ELSE UNCHANGED engineSide
         ELSE /\ app' = [app EXCEPT !.setup.error = "User not found."]
              /\ UNCHANGED <<users, dash>>
              /\ UNCHANGED engineSide

\* handleLogout(), App.tsx lines 41-46, with authService.logout()
\* (databaseService.ts 180-183): the session is removed and destroy() is
\* called; when it has nothing to wait for, the handler goes on to its end.
\* (One logout at a time.)
HandleLogout ==
  /\ Handled
  /\ app.view = "HOME"
  /\ \A t \in Tasks : app.waits[t].k # "logout"
  /\ destroy
  /\ UNCHANGED users
  /\ IF Called = {}
     THEN /\ dash' = Null
          /\ app' = [Unmounted EXCEPT
               !.session = Null,
               !.currentUser = Null,
               !.view = "AUTH"]
     ELSE /\ dash' = dash
          /\ app' = [app EXCEPT
               !.session = Null,
               !.waits = [t \in Tasks |->
                            IF t \in Called
                            THEN [k |-> "logout", mode |-> "QUIET", profile |-> Null]
                            ELSE app.waits[t]]]

\* handleLogout() after `await audioEngine.destroy()`, lines 44-45; a
\* destroy() that has thrown ends the handler.
LogoutSettled ==
  \E t \in Tasks :
    /\ app.waits[t].k = "logout"
    /\ app.settled[t].state # "pending"
    /\ UNCHANGED engineSide
    /\ UNCHANGED users
    /\ IF app.settled[t].state = "ok"
       THEN /\ dash' = Null
            /\ app' = [Unmounted EXCEPT
                 !.waits[t] = NoAppWait,
                 !.settled[t] = Pending,
                 !.currentUser = Null,
                 !.view = "AUTH",
                 !.setup = Null]
       ELSE /\ dash' = dash
            /\ app' = [app EXCEPT !.waits[t] = NoAppWait, !.settled[t] = Pending]

\* startAudio() of a dashboard that is no longer mounted, after its await
\* (SetupProfilePage.tsx lines 287-299): the calls of lines 288-289 are made
\* with the profile and the mode of its closure, and the state updates
\* reach no component.
UnmountedStartAudioSettled ==
  \E t \in Tasks :
    /\ app.waits[t].k = "startAudio"
    /\ app.settled[t].state # "pending"
    /\ app' = [app EXCEPT !.waits[t] = NoAppWait, !.settled[t] = Pending]
    /\ UNCHANGED <<users, dash>>
    /\ IF app.settled[t].state = "ok"
       THEN profileAndMode(app.waits[t].profile, app.waits[t].mode)
       ELSE UNCHANGED engineSide

\* suspendAudio() of a dashboard that is no longer mounted, after its await.
UnmountedSuspendAudioSettled ==
  \E t \in Tasks :
    /\ app.waits[t].k = "suspendAudio"
    /\ app.settled[t].state # "pending"
    /\ app' = [app EXCEPT !.waits[t] = NoAppWait, !.settled[t] = Pending]
    /\ UNCHANGED <<users, dash>>
    /\ UNCHANGED engineSide

\* The handlers of the mounted dashboard.
AppHandleToggle == Handled /\ app.view = "HOME" /\ HandleToggle

AppHandleModeChange == Handled /\ app.view = "HOME" /\ HandleModeChange

AppStartAudioSettled == dash # Null /\ StartAudioSettled

AppSuspendAudioSettled == dash # Null /\ SuspendAudioSettled

\* The continuations of the engine, with the pages around it.
AppResumeResolved == Settled /\ resumeResolved /\ AppSettle

AppDeviceAnswered == Settled /\ deviceAnswered /\ AppSettle

AppAttached == Settled /\ attached /\ AppSettle

AppStarted == Settled /\ started /\ AppSettle

AppSuspendResolved == Settled /\ suspendResolved /\ AppSettle

AppCloseResolved == Settled /\ closeResolved /\ AppSettle

\* The app after handlePermissionsComplete() (App.tsx 52-58), on an engine
\* nothing has started yet: the setup page for a user without a profile,
\* the dashboard for a user with one.
InitApp ==
  /\ InitEngine
  /\ scope = Application
  /\ \E profile \in {Null} \cup Application.profiles :
       /\ users = (1 :> StoredUser(profile))
       /\ dash = IF profile = Null THEN Null ELSE Mounted(profile)
       /\ app = [ view |-> IF profile = Null THEN "SETUP_PROFILE" ELSE "HOME",
                  currentUser |-> toPublicUser(StoredUser(profile)),
                  session |-> toPublicUser(StoredUser(profile)),
                  setup |-> IF profile = Null
                            THEN [ profile |-> DEFAULT_PROFILE,
                                   effects |-> "startLiveTuning",
                                   error |-> "null" ]
                            ELSE Null,
                  waits |-> [t \in Tasks |-> NoAppWait],
                  settled |-> [t \in Tasks |-> Pending] ]

NextApp ==
  \/ HandleEditProfile
  \/ StartLiveTuning
  \/ ProfileEffect
  \/ HandleSliderChange
  \/ HandleUseSpeechProfile
  \/ StartLiveTuningSettled
  \/ HandleSave
  \/ HandleLogout
  \/ LogoutSettled
  \/ UnmountedStartAudioSettled
  \/ UnmountedSuspendAudioSettled
  \/ AppHandleToggle
  \/ AppHandleModeChange
  \/ AppStartAudioSettled
  \/ AppSuspendAudioSettled
  \/ AppResumeResolved
  \/ AppDeviceAnswered
  \/ AppAttached
  \/ AppStarted
  \/ AppSuspendResolved
  \/ AppCloseResolved

SpecApp == InitApp /\ [][NextApp]_vars

\* ------------------------------------------------- the resolver on its own
\* Band values the resolver is tried on: the ends of the slider range, the
\* middle, and one value in between.
BandValues == {MinBand, 0, 6, MaxBand}

ResolverProfiles ==
  { HearingProfile(name, b500, b1000, b2000, b4000, b8000) :
      name \in ProfileNames, b500 \in BandValues, b1000 \in BandValues,
      b2000 \in BandValues, b4000 \in BandValues, b8000 \in BandValues }
    \cup {SpeechFocusProfile, CustomProfile}

\* The engine after setProfile(P), setEnvironment(M), setBypass(b) and then
\* start() up to its await on getUserMedia: the graph is built, the stage
\* values are the construction values, and nothing has been applied yet.
InitResolve ==
  /\ context = 1
  /\ ctxState = [c \in 1..MaxCtx |-> IF c = 1 THEN "running" ELSE "unborn"]
  /\ ctxQ = << >>
  /\ stream = 0
  /\ streams = [s \in 1..MaxStreams |-> "unborn"]
  /\ graph = 1
  /\ targets = InitialTargets
  /\ micSource = "null"
  /\ testSource = "null"
  /\ _isRunning = FALSE
  /\ _currentMode \in EnvironmentMode
  /\ _currentProfile \in ResolverProfiles
  /\ _isBypassed \in BOOLEAN
  /\ _isTesting = FALSE
  /\ tasks = [t \in Tasks |-> IF t = 1 THEN [op |-> "start", pc |-> "gum", ctx |-> 1, chained |-> FALSE]
                               ELSE Idle]
  /\ scope = Overlapping
  /\ spectrum = "zero"
  /\ chain = [nodes |-> BuildNodes, connections |-> ConnectStaticChain]
  /\ live = Written(InitialTargets)
  /\ noise = 0
  /\ NoPages
  /\ mon = [k |-> "resolve", snap |-> Null]

\* One _applySettings() with the stored profile, mode and bypass flag.
Resolve ==
  /\ mon.k = "resolve"
  /\ targets' = ApplySettings(context, _currentProfile, _currentMode, _isBypassed, targets)
  /\ mon' = [k |-> "resolved", snap |-> Null]
  /\ UNCHANGED <<context, ctxState, ctxQ, stream, streams, graph, micSource,
                 testSource, _isRunning, _currentMode, _currentProfile,
                 _isBypassed, _isTesting, tasks, scope, spectrum, chain, noise,
                 users, dash, app>>
  /\ live' = ApplyLive(context, _currentProfile, live, targets')

NextResolve == Resolve

SpecResolve == InitResolve /\ [][NextResolve]_vars

\* ================================================================== claims
\* The engine has been built and then destroyed: destroy() has set
\* this.context back to null (only line 260 does), the nodes are left over.
Destroyed == graph # 0 /\ context = 0

\* The bypass-inert record: band gains 0, high-pass 1 Hz, compressor
\* threshold -60 and ratio 1, master gain 0.
BypassInert ==
  [ highpass |-> 1,
    eq |-> <<0, 0, 0, 0, 0>>,
    threshold |-> -60,
    ratio |-> 1,
    gain |-> 0 ]

\* C1 - Destroyed is terminal: once destroy() has completed on a built
\* engine, no step makes the engine Running again, builds a new graph
\* (context and nodes), or issues a device request.
C1_DestroyedIsTerminal ==
  [][Destroyed =>
       /\ Destroyed'
       /\ graph' = graph
       /\ ~isRunning'
       /\ \A t \in Tasks : tasks'[t].pc = "gum" => tasks[t].pc = "gum"]_vars

\* C2 - While a start() awaits device acquisition, no other start() on the
\* same context has got past initialize() (marked the engine running, about
\* to apply settings and complete successfully).
C2_SecondStartHeldBack ==
  \A t1, t2 \in Tasks :
    (/\ t1 # t2
     /\ tasks[t1].op = "start" /\ tasks[t1].pc = "gum"
     /\ tasks[t2].op = "start" /\ tasks[t2].ctx = tasks[t1].ctx)
      => tasks[t2].pc # "init_ret"

\* C3 - At most one getUserMedia request is in flight at any moment.
C3_OneAcquisitionInFlight ==
  Cardinality({t \in Tasks : tasks[t].pc = "gum"}) <= 1

\* C4 - Once destroy() has been called, no call has been made since, and
\* destroy() and every call that was pending have finished, no microphone
\* stream has live tracks and the engine holds no stream.
C4_DestroyReleasesDevice ==
  (mon.k = "d1" /\ AllIdle) =>
    /\ stream = 0
    /\ \A s \in 1..MaxStreams : streams[s] # "live"

\* C5 - Whenever isRunning() is true, a source (microphone or test) is
\* connected to the head of the graph.
C5_RunningHasSource == isRunning => HeadSources # {}

C9_BypassResolvesInert ==
  (mon.k = "resolved" /\ _isBypassed) => targets = BypassInert

C9_Witness ==
  /\ mon.k = "resolved"
  /\ _isBypassed
  /\ _currentProfile = HearingProfile(NameMildLoss, MaxBand, MaxBand, MaxBand, MaxBand, MaxBand)
  /\ _currentMode = "NOISY"
  /\ targets = BypassInert

\* C10 - A non-bypass apply sets the gain target of every band f to
\* clamp(P.eqBands[f] + classBoost(P.name)[f] + preset(M).eqOffsets[f], -18, 18),
\* absent entries counting as 0; 'Speech Focus Profile' with 2000 Hz = 6 in
\* CONVERSATION resolves to 18.
C10_BandGainFormula ==
  (mon.k = "resolved" /\ ~_isBypassed) =>
    /\ \A i \in 1..5 :
         LET f == EQ_FREQUENCIES[i]
             boost == BoostsByName[_currentProfile.name]
             offsets == ENV_PRESETS[_currentMode].eqOffsets
             sum == _currentProfile.eqBands[f]
                      + (IF f \in DOMAIN boost THEN boost[f] ELSE 0)
                      + (IF f \in DOMAIN offsets THEN offsets[f] ELSE 0)
         IN targets.eq[i] = (IF sum < -18 THEN -18 ELSE IF sum > 18 THEN 18 ELSE sum)
    /\ (_currentProfile = SpeechFocusProfile /\ _currentMode = "CONVERSATION")
         => targets.eq[3] = 18

C10_Witness ==
  /\ mon.k = "resolved"
  /\ ~_isBypassed
  /\ _currentProfile = SpeechFocusProfile
  /\ _currentMode = "CONVERSATION"
  /\ targets.eq = <<-10, 16, 18, 12, -2>>

\* C11 - For every mode, a non-bypass apply sets the high-pass target to the
\* preset's cutoff (1 Hz for QUIET, 150 for CONVERSATION, 400 for NOISY), the
\* master-gain target to 1.0 plus the preset's gain offset (1.00, 1.15,
\* 1.25, in hundredths), and the compressor threshold and ratio targets to
\* the preset's (-24 and 4, -30 and 6, -20 and 10), whatever the profile.
C11_PresetTargets ==
  (mon.k = "resolved" /\ ~_isBypassed) =>
    /\ _currentMode = "QUIET" =>
         /\ targets.highpass = 1 /\ targets.gain = 100
         /\ targets.threshold = -24 /\ targets.ratio = 4
    /\ _currentMode = "CONVERSATION" =>
         /\ targets.highpass = 150 /\ targets.gain = 115
         /\ targets.threshold = -30 /\ targets.ratio = 6
    /\ _currentMode = "NOISY" =>
         /\ targets.highpass = 400 /\ targets.gain = 125
         /\ targets.threshold = -20 /\ targets.ratio = 10

C11_Witness ==
  /\ mon.k = "resolved"
  /\ ~_isBypassed
  /\ _currentMode = "NOISY"
  /\ _currentProfile = HearingProfile(NameBalanced, MinBand, 6, 0, MaxBand, 6)
  /\ targets.highpass = 400
  /\ targets.gain = 125
  /\ targets.threshold = -20
  /\ targets.ratio = 10

\* C12 - In every reachable state in which the graph exists, each of the
\* five band-gain targets lies in [-18, +18] dB, whatever sequence of
\* setProfile, setEnvironment, setBypass, start and suspend (and the other
\* calls) led there, the profile band values being in [-12, 12].
C12_BandTargetsInRange ==
  graph # 0 => \A i \in 1..Len(EQ_FREQUENCIES) : targets.eq[i] \in -18..18

\* Both ends of the range are met: 2000 Hz of the custom profile in NOISY
\* is 12 + 0 + 6, and its 500 Hz is -12 + 0 - 10.
C12_Witness ==
  /\ graph # 0
  /\ isRunning
  /\ _currentProfile = CustomProfile
  /\ _currentMode = "NOISY"
  /\ targets.eq[1] = -18
  /\ targets.eq[3] = 18

\* The steps that end with an apply: the three setters, and the end of start().
Applies == SetProfile \/ SetEnvironment \/ SetBypass \/ Started

\* C13 - Parameter resolution is pure and history-independent: whenever an
\* apply writes (a context and a profile are there), the targets it writes
\* are one function of the profile, mode and bypass flag it is made with,
\* whatever the targets were and whatever came before; and
\* setProfile(P); setEnvironment(M) leaves the targets that
\* setEnvironment(M); setProfile(P) leaves from the same state.
C13_ResolutionIsPure ==
  /\ [][(Applies /\ context' # 0 /\ _currentProfile' # Null)
          => targets' = StageTargets(_currentProfile', _currentMode', _isBypassed')]_vars
  /\ [](mon.k = "pe" =>
          targets = ApplySettings(mon.snap.context, _currentProfile, _currentMode,
                      mon.snap._isBypassed,
                      ApplySettings(mon.snap.context, mon.snap._currentProfile,
                        _currentMode, mon.snap._isBypassed, mon.snap.targets)))
  /\ [](mon.k = "ep" =>
          targets = ApplySettings(mon.snap.context, _currentProfile, _currentMode,
                      mon.snap._isBypassed,
                      ApplySettings(mon.snap.context, _currentProfile,
                        mon.snap._currentMode, mon.snap._isBypassed, mon.snap.targets)))

\* setProfile(custom); setEnvironment(CONVERSATION) on a running engine that
\* had no profile and a master gain left by setMasterVolume.
C13_Witness ==
  /\ mon.k = "pe"
  /\ isRunning
  /\ mon.snap._currentProfile = Null
  /\ mon.snap._currentMode = "NOISY"
  /\ mon.snap.targets.gain = 250
  /\ _currentProfile = CustomProfile
  /\ _currentMode = "CONVERSATION"
  /\ targets = StageTargets(CustomProfile, "CONVERSATION", FALSE)

\* C14 - While no profile has been set, start() (every step of it),
\* setEnvironment() and setBypass() change no stage target: a step of theirs
\* leaves the targets as they are, or builds the graph with its construction
\* values; so band gains, high-pass frequency and compressor threshold and
\* ratio are the construction values in every state without a profile (the
\* master gain too, unless setMasterVolume has set it).
C14_NoProfileNoApply ==
  /\ [][(_currentProfile = Null
           /\ (Start \/ ResumeResolved \/ DeviceAnswered \/ Attached \/ Started
                 \/ SetEnvironment \/ SetBypass))
          => \/ targets' = targets
             \/ graph' # graph /\ targets' = InitialTargets]_vars
  /\ []((_currentProfile = Null /\ graph # 0) =>
          /\ targets.eq = <<0, 0, 0, 0, 0>>
          /\ targets.highpass = 1
          /\ targets.threshold = -24
          /\ targets.ratio = 4
          /\ targets.gain \in {100} \cup {Clamp(v, 0, 400) : v \in scope.volumes})

\* start(), setEnvironment(NOISY) and setBypass(true) without a profile.
C14_Witness ==
  /\ _currentProfile = Null
  /\ isRunning
  /\ micSource = "connected"
  /\ _currentMode = "NOISY"
  /\ _isBypassed
  /\ targets = InitialTargets

ResumeKeepsGraph ==
  mon.k \in {"z2", "z2done"} =>
    /\ context = mon.snap.context
    /\ graph = mon.snap.graph
    /\ \A c \in 1..MaxCtx : (ctxState[c] = "unborn") = (mon.snap.ctxState[c] = "unborn")
    /\ micSource = mon.snap.micSource
    /\ testSource = mon.snap.testSource
    /\ stream = mon.snap.stream
    /\ streams = mon.snap.streams
    /\ \A t \in Tasks : tasks[t].pc # "gum"

\* C16 - start() from Suspended resumes the existing graph (no new context
\* or stage nodes, no device request, the same attached source), and only
\* the first start() of an engine builds the graph: no step replaces the
\* nodes of an engine that has had its graph built.
C16_OnlyFirstStartBuilds ==
  /\ []ResumeKeepsGraph
  /\ [][graph # 0 => graph' = graph]_vars

\* The stage side of the engine is as in the state the history refers to:
\* context, nodes, stage targets, profile, mode and bypass flag.
StagesAsBefore ==
  /\ context = mon.snap.context
  /\ ctxState = mon.snap.ctxState
  /\ graph = mon.snap.graph
  /\ targets = mon.snap.targets
  /\ _currentProfile = mon.snap._currentProfile
  /\ _currentMode = mon.snap._currentMode
  /\ _isBypassed = mon.snap._isBypassed

\* C17 - Switching from the live source to the test source and back
\* (startTestAudio then stopTestAudio) leaves every stage target, the stage
\* nodes, the profile, the mode and the bypass flag unchanged; only the
\* source at the head of the graph is replaced: the test source alone after
\* startTestAudio, the microphone alone after stopTestAudio.
C17_SourceSwitchKeepsStages ==
  /\ mon.k = "t1" => (StagesAsBefore /\ HeadSources = {"test"})
  /\ mon.k = "t2" => StagesAsBefore
  /\ mon.k = "t2done" => (StagesAsBefore /\ HeadSources = {"mic"})

C17_Witness ==
  /\ mon.k = "t2done"
  /\ isRunning
  /\ micSource = "connected"
  /\ testSource = "null"
  /\ _currentProfile = CustomProfile
  /\ _currentMode = "NOISY"
  /\ targets = StageTargets(CustomProfile, "NOISY", FALSE)

\* The four synchronous setters.
Setters == SetProfile \/ SetEnvironment \/ SetBypass \/ SetMasterVolume

\* C18 - setProfile, setEnvironment, setBypass and setMasterVolume never
\* change the lifecycle phase (context, its state, the running and testing
\* flags, isRunning()), never rebuild or reconnect the graph (the nodes stay
\* the same, and without nodes no target is written), never replace the
\* attached source and never issue a device request or any other pending
\* call; they only update the stored profile, mode and bypass flag and the
\* stage targets, setMasterVolume only the master gain target.
C18_SettersKeepLifecycle ==
  [][Setters =>
       /\ UNCHANGED <<context, ctxState, ctxQ, graph, micSource, testSource,
                      stream, streams, _isRunning, _isTesting, tasks>>
       /\ isRunning' = isRunning
       /\ graph = 0 => targets' = targets
       /\ SetMasterVolume =>
            /\ UNCHANGED <<_currentProfile, _currentMode, _isBypassed>>
            /\ graph # 0 => [targets' EXCEPT !.gain = targets.gain] = targets]_vars

\* start(), setProfile(custom), setEnvironment(CONVERSATION),
\* setBypass(true) and setMasterVolume(2.5) on an engine that stays running
\* on its microphone.
C18_Witness ==
  /\ isRunning
  /\ micSource = "connected"
  /\ AllIdle
  /\ _currentProfile = CustomProfile
  /\ _currentMode = "CONVERSATION"
  /\ _isBypassed
  /\ targets = [StageTargets(CustomProfile, "CONVERSATION", TRUE) EXCEPT !.gain = 250]

\* The engine is Suspended: its context is suspended and the running flag is off.
Suspended == context # 0 /\ ctxState[context] = "suspended" /\ ~_isRunning

\* C19 - Whenever the engine is Suspended or Destroyed, the spectrum a
\* caller reads through getAnalyser() is silence, never data retained from
\* before the suspension or destruction.
C19_SilentWhenNotRunning ==
  (Suspended \/ Destroyed) => SpectrumSnapshot # "data"

\* A start() has failed on device acquisition, and no call has been made since.
StartFailed == mon.k \in {"d1", "startFailed"} /\ mon.snap # Null

\* C20 - When device acquisition fails, start() fails with exactly one of
\* three outcomes that the cause picks and that differ from one another
\* (permission denied, device not found, a generic device error that
\* carries the detail), and the engine is left not running (isRunning()
\* false) with all stage targets unchanged.
C20_AcquisitionFailure ==
  StartFailed =>
    LET cause == mon.snap.cause
        message == mon.snap.error.message
    IN /\ (cause.name = "NotAllowedError") <=>
            (message = <<"Microphone permission denied. Please allow mic access and try again.">>)
       /\ (cause.name = "NotFoundError") <=>
            (message = <<"No microphone found. Please connect a mic and try again.">>)
       /\ (cause.name \notin {"NotAllowedError", "NotFoundError"}) <=>
            (message = <<"Microphone error: ", cause.message>>)
       /\ ~isRunning
       /\ targets = mon.snap.targets


\* The ramped parameters of a record of stage values, in one sequence:
\* high-pass frequency, the five band gains, threshold, ratio, master gain.
Flat(r) == <<r.highpass>> \o r.eq \o <<r.threshold, r.ratio, r.gain>>

\* The distance between two values.
Dist(a, b) == IF a >= b THEN a - b ELSE b - a

\* C21 - Once the graph is built, a step that leaves the nodes in place
\* changes a stage parameter only by ramping: a call that sets targets
\* (setProfile, setEnvironment, setBypass, setMasterVolume, start) leaves
\* every live value as it is, and a live value moves only by one smoothing
\* step of the 50 ms ramp, at most 1 - e^(-25/50) (393 thousandths) of its
\* distance to the target in 25 ms.
C21_RampsOnly ==
  [][ (graph # 0 /\ graph' = graph) =>
        /\ targets' # targets => live' = live
        /\ \A p \in 1..Len(Flat(live)) :
             1000 * Dist(Flat(live')[p], Flat(live)[p])
               <= 393 * Dist(Flat(live)[p], Thousandths(Flat(targets)[p])) ]_vars

\* setEnvironment(NOISY) with a profile set has moved the targets, and the
\* master gain and the band gains are on their way: between the values
\* they had and their targets.
C21_Witness ==
  /\ mon.k = "ramp"
  /\ _currentProfile # Null
  /\ _currentMode = "NOISY"
  /\ ~_isBypassed
  /\ targets.gain = 125
  /\ live.gain > Thousandths(100)
  /\ live.gain < Thousandths(125)
  /\ live.eq # Written(targets).eq

C23_MasterGainInRange ==
  /\ [](graph # 0 => targets.gain \in 0..400)
  /\ [][ /\ (SetMasterVolume /\ graph # 0 /\ context # 0) =>
              targets'.gain \in { IF v < 0 THEN 0 ELSE IF v > 400 THEN 400 ELSE v :
                                    v \in scope.volumes }
         /\ (Applies /\ context # 0 /\ _currentProfile' # Null) =>
              targets'.gain \in {0, 100, 115, 125} ]_vars

\* setMasterVolume(9.0) on a running engine has left the target at 4.0.
C23_Witness ==
  /\ isRunning
  /\ graph = context
  /\ 900 \in scope.volumes
  /\ targets.gain = 400

\* C24 - With the graph built, its nodes are connected as one chain,
\* master gain -> high-pass -> five peaking bands at 500, 1000, 2000, 4000
\* and 8000 Hz in that order, each of Q 1.4 -> compressor (attack 3 ms,
\* release 150 ms, knee 30 dB) -> analyser -> output, and no step that
\* leaves the nodes in place changes a connection or one of these
\* parameters.
C24_ChainIsFixed ==
  /\ [](graph # 0 =>
          /\ chain.connections =
               { <<Node("gainNode", 0), Node("highpassFilter", 0)>>,
                 <<Node("highpassFilter", 0), Node("eqFilters", 1)>>,
                 <<Node("eqFilters", 1), Node("eqFilters", 2)>>,
                 <<Node("eqFilters", 2), Node("eqFilters", 3)>>,
                 <<Node("eqFilters", 3), Node("eqFilters", 4)>>,
                 <<Node("eqFilters", 4), Node("eqFilters", 5)>>,
                 <<Node("eqFilters", 5), Node("compressor", 0)>>,
                 <<Node("compressor", 0), Node("analyser", 0)>>,
                 <<Node("analyser", 0), Node("destination", 0)>> }
          /\ chain.nodes.highpassFilter.type = "highpass"
          /\ Len(chain.nodes.eqFilters) = 5
          /\ \A i \in 1..5 :
               /\ chain.nodes.eqFilters[i].type = "peaking"
               /\ chain.nodes.eqFilters[i].frequency = <<500, 1000, 2000, 4000, 8000>>[i]
               /\ chain.nodes.eqFilters[i].Q = 14
          /\ chain.nodes.compressor.attack = 3
          /\ chain.nodes.compressor.release = 150
          /\ chain.nodes.compressor.knee = 30)
  /\ [][(graph # 0 /\ graph' = graph) => chain' = chain]_vars

\* A second graph, built after a destroy(), with a profile applied in
\* NOISY mode and the test source at its head.
C24_Witness ==
  /\ graph = 2
  /\ isRunning
  /\ _currentProfile # Null
  /\ targets.highpass = 400
  /\ testSource = "playing"

\* C25 - The class boost of a band is picked by the profile name, matched
\* without regard to case: the mild-loss table for a name that contains
\* 'mild', else the speech-focus table for one that contains 'speech', else
\* the balanced table for one that contains 'balanced', else no boost; a
\* name that matches several keywords gets the first of these tables only.
C25_BoostByName ==
  (mon.k = "resolved" /\ ~_isBypassed) =>
    \A i \in 1..5 :
      LET f == <<500, 1000, 2000, 4000, 8000>>[i]
          name == _currentProfile.name
          table == CASE name = NameMildLoss -> "mild"
                     [] name = NameSpeechFocus -> "speech"
                     [] name = NameBalanced -> "balanced"
                     [] name = NameCustom -> "none"
                     [] name = NameMixed -> "mild"
                     [] name = NameSpeechBalanced -> "speech"
          boost == CASE table = "mild" -> <<0, 0, 3, 5, 6>>[i]
                     [] table = "speech" -> <<-3, 6, 8, 4, 0>>[i]
                     [] table = "balanced" -> <<1, 2, 2, 1, 0>>[i]
                     [] table = "none" -> 0
          offsets == ENV_PRESETS[_currentMode].eqOffsets
          sum == _currentProfile.eqBands[f] + boost
                   + (IF f \in DOMAIN offsets THEN offsets[f] ELSE 0)
      IN targets.eq[i] = (IF sum < -18 THEN -18 ELSE IF sum > 18 THEN 18 ELSE sum)

\* A flat profile named 'BALANCED Speech mild', resolved in QUIET mode:
\* the band gains are the mild-loss boosts and nothing else.
C25_Witness ==
  /\ mon.k = "resolved"
  /\ ~_isBypassed
  /\ _currentMode = "QUIET"
  /\ _currentProfile = HearingProfile(NameMixed, 0, 0, 0, 0, 0)
  /\ targets.eq = <<0, 0, 3, 5, 6>>

\* C26 - The test source is deterministic and loops until it is removed:
\* a startTestAudio() made from the engine state an earlier one was made
\* from fills its buffer with the same samples, and a test source that
\* plays is taken away only by stopTestAudio(), by a microphone attach of
\* initialize() or by destroy().
C26_TestSourceDeterministic ==
  /\ [](mon.k = "t3" => noise = mon.snap.first)
  /\ [][(testSource = "playing" /\ testSource' # "playing") =>
          (StopTestAudio \/ Start \/ Destroy)]_vars

\* C27 - No two stored users have the same email or the same username,
\* letter case aside, and a createUser() whose email or username is taken
\* (letter case aside) or whose password has fewer than 6 characters throws
\* and leaves the store as it is.
C27_UsersAreUnique ==
  /\ [](\A u, v \in DOMAIN users :
          u # v => /\ toLowerCase(users[u].email) # toLowerCase(users[v].email)
                   /\ toLowerCase(users[u].username) # toLowerCase(users[v].username))
  /\ [][ (/\ mon'.k = "createUser"
          /\ \/ \E u \in DOMAIN users :
                  toLowerCase(users[u].email) = toLowerCase(mon'.snap.email)
             \/ \E u \in DOMAIN users :
                  toLowerCase(users[u].username) = toLowerCase(mon'.snap.username)
             \/ Len(mon'.snap.password) < 6)
         => (users' = users /\ mon'.snap.error # "none") ]_vars

\* Two users are stored, and a createUser() with the email of one of them
\* in capitals has just been turned down.
C27_Witness ==
  /\ Cardinality(DOMAIN users) = 2
  /\ mon.k = "createUser"
  /\ mon.snap.error = "This email is already registered."
  /\ mon.snap.email = <<"A","n","n","@","X",".","I","O">>
  /\ \E u \in DOMAIN users : users[u].email = <<"a","n","n","@","x",".","i","o">>

\* C28 - At every moment at most one source, the microphone source or the
\* test source, is connected to the head of the graph (the gain node),
\* however start(), startTestAudio() and stopTestAudio() interleave, also
\* when startTestAudio() is called while the microphone is being acquired.
C28_OneSourceAtHead == Cardinality(HeadSources) <= 1

\* C29 - When start() and suspend() calls overlap, then once all of them
\* have completed the engine is running exactly if start() was the one
\* called last.
C29_LastCallWins ==
  (mon.k = "overlap" /\ AllIdle) => (isRunning <=> mon.snap.last = "start")

\* The startAudio() executions of the dashboard that await the engine.
StartAudioInFlight == {t \in Tasks : dash.waits[t].k = "startAudio"}

\* C30, for one mounted dashboard: it never has two startAudio() executions
\* in flight: the guard is set exactly while one awaits audioEngine.start(); a
\* startAudio() called meanwhile returns without a call to the engine; and
\* the guard is released when the awaiting execution ends, with status
\* 'running' if start() has returned, and with status 'error', the error
\* message set and the assist toggle off if it has thrown.
C30_OneStartAudioInFlight ==
  /\ [](Cardinality(StartAudioInFlight) <= 1)
  /\ [](dash.startingRef <=> StartAudioInFlight # {})
  /\ [][ (~dash.isAssistOn /\ dash'.isAssistOn /\ dash.startingRef) =>
           (UNCHANGED engineSide /\ dash'.waits = dash.waits) ]_vars
  /\ [][ \A t \in Tasks :
           (dash.waits[t].k = "startAudio" /\ dash'.waits[t].k = "none") =>
             /\ ~dash'.startingRef
             /\ dash.settled[t].state = "ok" => dash'.audioStatus = "running"
             /\ dash.settled[t].state = "error" =>
                  /\ dash'.audioStatus = "error"
                  /\ dash'.micError # Null
                  /\ ~dash'.isAssistOn ]_vars

\* A startAudio() awaits context.resume() with the guard set while the
\* toggle button is enabled again: a suspendAudio() that ended meanwhile
\* has set the status to 'idle', so the toggle can be pressed.
C30_Witness ==
  /\ dash.isAssistOn
  /\ dash.startingRef
  /\ dash.audioStatus = "idle"
  /\ Cardinality(StartAudioInFlight) = 1
  /\ \E t \in Tasks : tasks[t].op = "start" /\ tasks[t].pc = "resume"


\* ------------------------------------------------------------------ C33
\* C33: the testing flag is true exactly when a test source node exists:
\* startTestAudio() sets both, and stopTestAudio(), a microphone attach and
\* destroy() clear both.
C33_TestingIffTestSource == _isTesting <=> testSource # "null"

\* The same, looked at only when no call of the engine is pending.
TestingIffTestSourceAtRest == AllIdle => (_isTesting <=> testSource # "null")


\* ------------------------------------------------------------------ C34
\* A suspend() has completed in this step: at once when there is no running
\* context to suspend, else when context.suspend() has resolved.
SuspendCompleted ==
  \/ Suspend /\ tasks' = tasks
  \/ SuspendResolved /\ _isBypassed'

\* C34: after a start() that completes with a profile set, the bypass flag
\* is false and the stage targets are the non-bypass resolution of the
\* current (profile, mode), whatever they were before; suspend() sets the
\* bypass flag and changes no target.  It holds while one asynchronous call
\* runs at a time; a start() that a destroy() overlaps completes with
\* this.context null, and its apply returns at line 344.
C34_StartClearsBypass ==
  [][ /\ (Started /\ _currentProfile # Null)
        => /\ ~_isBypassed'
           /\ targets' = StageTargets(_currentProfile', _currentMode', FALSE)
      /\ (Suspend \/ SuspendResolved) => targets' = targets
      /\ SuspendCompleted => _isBypassed' ]_vars

\* A start() has completed after a suspend() from Running that found the
\* engine in bypass: the flag is cleared and the targets are resolved anew.
C34_Witness ==
  /\ mon.k = "z2done"
  /\ mon.snap._isBypassed
  /\ mon.snap.targets # targets
  /\ ~_isBypassed
  /\ _currentProfile # Null
  /\ targets = StageTargets(_currentProfile, _currentMode, FALSE)


\* ------------------------------------------------------------------ C35
\* The master-gain target an apply sets: lines 400-404.
MasterGainOfApply == IF _isBypassed THEN 0 ELSE 100 + ENV_PRESETS[_currentMode].gainOffset

\* C35: every apply made with a graph and a profile (by setProfile,
\* setEnvironment, setBypass or start) sets the master-gain target to
\* 1.0 + preset.gainOffset, or 0 in bypass, whatever setMasterVolume had
\* set; setMasterVolume changes the master-gain target and nothing else.
C35_ApplyResetsMasterGain ==
  [][ /\ ( /\ SetProfile \/ SetEnvironment \/ SetBypass \/ Started
           /\ context' # 0
           /\ _currentProfile' # Null )
        => targets'.gain = MasterGainOfApply'
      /\ SetMasterVolume
        => View' = [View EXCEPT !.targets =
                      IF targets = Null THEN Null
                      ELSE [targets EXCEPT !.gain = targets'.gain]] ]_vars

\* setProfile() has found the master gain where setMasterVolume(2.5) had
\* put it, and has set it back to the value of the mode.
C35_Witness ==
  /\ mon.k = "p1"
  /\ mon.snap.targets # Null
  /\ mon.snap.targets.gain = 250
  /\ context # 0
  /\ targets.gain = MasterGainOfApply
  /\ targets.gain # 250


\* ------------------------------------------------------------------ C31
\* An engine start() is pending, or a handler that awaited one has still
\* to go on.
StartPending ==
  \/ \E t \in Tasks : tasks[t].op = "start"
  \/ \E t \in Tasks : app.waits[t].k \in {"startLiveTuning", "startAudio"}

\* C31: while the setup page is mounted, the engine is running and no
\* engine start is pending, the engine's current profile is the profile
\* the page shows, also when sliders or presets were changed while the
\* page's first audioEngine.start() awaited the device.
C31_LiveTuningFollowsPage ==
  (/\ app.setup # Null
   /\ ~Mounting
   /\ isRunning
   /\ ~StartPending)
    => _currentProfile = app.setup.profile


\* ------------------------------------------------------------------ C32
\* C32: whenever the dashboard shows the assist as on and running, the mode
\* it shows as selected is the engine's current mode, also after going to
\* the setup page and back while the engine keeps running.
C32_ShownModeIsEngineMode ==
  (/\ dash # Null
   /\ dash.isAssistOn
   /\ dash.audioStatus = "running")
    => dash.mode = _currentMode

\* The same with nothing pending: no call of the engine and no handler.
ShownModeIsEngineModeAtRest ==
  (/\ dash # Null
   /\ dash.isAssistOn
   /\ dash.audioStatus = "running"
   /\ AllIdle
   /\ \A t \in Tasks : dash.waits[t].k = "none" /\ app.waits[t].k = "none")
    => dash.mode = _currentMode


\* ------------------------------------------------------------------ C36
\* The engine has been destroyed: no stream is held and no microphone track
\* is live, the context is closed and released, the engine is not running.
EngineDestroyed ==
  /\ stream = 0
  /\ \A s \in 1..MaxStreams : streams[s] # "live"
  /\ context = 0
  /\ \A c \in 1..MaxCtx : ctxState[c] \in {"unborn", "closed"}
  /\ ~_isRunning

\* C36: after logout has completed the persisted session is cleared, the
\* shared engine has been destroyed, the current user is null and the view
\* is AUTH, also when logout is triggered while an engine start is pending.
C36_LogoutLeavesNothing ==
  (app.view = "AUTH")
    => /\ app.session = Null
       /\ app.currentUser = Null
       /\ EngineDestroyed

\* What logout leaves of the app alone.
LogoutClearsSession ==
  (app.view = "AUTH") => (app.session = Null /\ app.currentUser = Null)


\* The startAudio() executions in flight in the app: those of the mounted
\* dashboard and those of a dashboard unmounted since.
AllStartAudioInFlight ==
  {t \in Tasks : app.waits[t].k = "startAudio"}
    \cup (IF dash = Null THEN {} ELSE StartAudioInFlight)

\* C30, over the dashboards the app mounts one after the other: never two
\* startAudio() executions are in flight.
C30_OneStartAudioInFlightInApp == Cardinality(AllStartAudioInFlight) <= 1

=============================================================================
